---------------------------- MODULE Spec2Model ----------------------------
(***************************************************************************)
(* Invest-Tracker: the ledger-to-state derivation engine of utils.ts       *)
(* (calculateHoldings, calculatePortfolioHistory, calculateMaxDrawdown,    *)
(* calculateMonthlyReturns, csvToTransactions), and the App that keeps     *)
(* the ledger: goals, portfolios and their persistence, the growth view,   *)
(* the add-transaction form, deletion and import.                          *)
(*                                                                         *)
(* JavaScript numbers are modelled as exact rationals extended with the    *)
(* three non-finite IEEE values (NaN, +Infinity, -Infinity), so that an    *)
(* unguarded division by zero is visible.  Rounding of binary floating     *)
(* point is not modelled: a finite result is the exact real result.        *)
(***************************************************************************)
EXTENDS Integers, Sequences, FiniteSets, TLC

(***************************************************************************)
(* Numbers.  A number is a record [n, d]: d > 0 is the rational n/d in     *)
(* lowest terms; d = 0 is NaN (n = 0), +Infinity (n = 1) or -Infinity      *)
(* (n = -1).  Undef stands for a missing (undefined) field.                *)
(***************************************************************************)
Abs(x) == IF x < 0 THEN -x ELSE x

Sign(x) == IF x < 0 THEN -1 ELSE IF x > 0 THEN 1 ELSE 0

RECURSIVE Gcd(_, _)
Gcd(a, b) == IF b = 0 THEN a ELSE Gcd(b, a % b)

Num(n, d) ==
  IF d = 0 THEN [n |-> Sign(n), d |-> 0]
  ELSE LET g == Gcd(Abs(n), Abs(d))
       IN  [n |-> (Sign(d) * n) \div g, d |-> Abs(d) \div g]

Q(n, d) == Num(n, d)
Z(n) == [n |-> n, d |-> 1]
Zero == Z(0)
NaN == [n |-> 0, d |-> 0]
PosInf == [n |-> 1, d |-> 0]
NegInf == [n |-> -1, d |-> 0]
Undef == [n |-> 0, d |-> -1]

IsNaN(a) == a = NaN
IsFinite(a) == a.d > 0

Neg(a) == [n |-> -a.n, d |-> a.d]

Add(a, b) ==
  IF IsNaN(a) \/ IsNaN(b) THEN NaN
  ELSE IF a.d = 0 /\ b.d = 0 THEN (IF a.n = b.n THEN a ELSE NaN)
  ELSE IF a.d = 0 THEN a
  ELSE IF b.d = 0 THEN b
  ELSE Num(a.n * b.d + b.n * a.d, a.d * b.d)

Sub(a, b) == Add(a, Neg(b))

Mul(a, b) == Num(a.n * b.n, a.d * b.d)

Recip(b) == IF b.n < 0 THEN [n |-> -b.d, d |-> -b.n] ELSE [n |-> b.d, d |-> b.n]

Div(a, b) == Mul(a, Recip(b))

\* a < b as JavaScript evaluates it: false as soon as one side is NaN.
Lt(a, b) ==
  IF IsNaN(a) \/ IsNaN(b) THEN FALSE
  ELSE IF a.d = 0 /\ b.d = 0 THEN a.n < b.n
  ELSE IF a.d = 0 THEN a.n < 0
  ELSE IF b.d = 0 THEN b.n > 0
  ELSE a.n * b.d < b.n * a.d

Gt(a, b) == Lt(b, a)

\* a === b on numbers: NaN equals nothing.
Eq(a, b) == ~IsNaN(a) /\ ~IsNaN(b) /\ a = b

Le(a, b) == Lt(a, b) \/ Eq(a, b)

\* JavaScript truthiness of an optional number: undefined, NaN and 0 are falsy.
Truthy(x) == x # Undef /\ ~IsNaN(x) /\ x # Zero

\* x || 0
OrZero(x) == IF Truthy(x) THEN x ELSE Zero

\* Times (Date.getTime()) are counted in half days of 43,200,000 ms: a date is
\* the midnight that starts its day, and the clock is read at midnight or noon.
HalfDay == 1
Day == 2 * HalfDay


(***************************************************************************)
(* Transactions.  A transaction is a record [date, type, symbol, shares,   *)
(* price, fee].  Symbols are numbered 1, 2, ...; NoSymbol is an absent     *)
(* (undefined or empty) symbol and Undef an absent numeric field.          *)
(***************************************************************************)
BUY == "BUY"
SELL == "SELL"
DEPOSIT == "DEPOSIT"
WITHDRAW == "WITHDRAW"
DIVIDEND == "DIVIDEND"
SPLIT == "SPLIT"

TransactionType == {BUY, SELL, DEPOSIT, WITHDRAW, DIVIDEND, SPLIT}

NoSymbol == 0

\* !tx.symbol is false
HasSymbol(tx) == tx.symbol # NoSymbol

(***************************************************************************)
(* calculateHoldings: the per-symbol accumulator and the forEach body.     *)
(***************************************************************************)
\* The Holding created the first time a symbol is seen.
NewHolding(symbol, prices) ==
  [symbol |-> symbol,
   shares |-> Zero,
   avgCost |-> Zero,
   totalCost |-> Zero,
   currentPrice |-> OrZero(prices[symbol]),
   marketValue |-> Zero,
   unrealizedPL |-> Zero,
   unrealizedPLPercent |-> Zero,
   realizedPL |-> Zero,
   totalDividends |-> Zero,
   totalReturn |-> Zero,
   targetAllocation |-> Zero]

\* h.shares < 0.000001
Epsilon == Q(1, 1000000)

\* Mutant of ApplyBuy: avgCost is taken over the shares held before the BUY.
ApplyBuy_StaleShares(h, price, shares, fee) ==
  LET cost == Add(Mul(price, shares), fee)
      totalCost == Add(h.totalCost, cost)
  IN  [h EXCEPT !.totalCost = totalCost,
                !.shares = Add(h.shares, shares),
                !.avgCost = Div(totalCost, h.shares)]

ApplyBuy(h, price, shares, fee) ==
  LET cost == Add(Mul(price, shares), fee)
      totalCost == Add(h.totalCost, cost)
      newShares == Add(h.shares, shares)
  IN  [h EXCEPT !.totalCost = totalCost,
                !.shares = newShares,
                !.avgCost = Div(totalCost, newShares)]

\* Mutant of ApplySell: the gain is booked with the wrong sign.
ApplySell_SignFlipped(h, price, shares, fee) ==
  LET proceeds == Sub(Mul(price, shares), fee)
      costBasis == Mul(h.avgCost, shares)
      realizedPL == Add(h.realizedPL, Sub(costBasis, proceeds))
      newShares == Sub(h.shares, shares)
      totalCost == Sub(h.totalCost, costBasis)
  IN  IF Lt(newShares, Epsilon)
      THEN [h EXCEPT !.realizedPL = realizedPL, !.shares = Zero, !.totalCost = Zero]
      ELSE [h EXCEPT !.realizedPL = realizedPL, !.shares = newShares,
                     !.totalCost = totalCost]

\* Mutant of ApplySell: the clamp resets shares but forgets totalCost.
ApplySell_ClampSharesOnly(h, price, shares, fee) ==
  LET proceeds == Sub(Mul(price, shares), fee)
      costBasis == Mul(h.avgCost, shares)
      realizedPL == Add(h.realizedPL, Sub(proceeds, costBasis))
      newShares == Sub(h.shares, shares)
      totalCost == Sub(h.totalCost, costBasis)
  IN  IF Lt(newShares, Epsilon)
      THEN [h EXCEPT !.realizedPL = realizedPL, !.shares = Zero,
                     !.totalCost = totalCost]
      ELSE [h EXCEPT !.realizedPL = realizedPL, !.shares = newShares,
                     !.totalCost = totalCost]

\* Mutant of ApplySell: a partial sell leaves totalCost as it was.
ApplySell_KeepTotalCost(h, price, shares, fee) ==
  LET proceeds == Sub(Mul(price, shares), fee)
      costBasis == Mul(h.avgCost, shares)
      realizedPL == Add(h.realizedPL, Sub(proceeds, costBasis))
      newShares == Sub(h.shares, shares)
  IN  IF Lt(newShares, Epsilon)
      THEN [h EXCEPT !.realizedPL = realizedPL, !.shares = Zero, !.totalCost = Zero]
      ELSE [h EXCEPT !.realizedPL = realizedPL, !.shares = newShares]

\* Mutant of ApplySell: the clamp resets avgCost as well.
ApplySell_ClampResetsAvgCost(h, price, shares, fee) ==
  LET proceeds == Sub(Mul(price, shares), fee)
      costBasis == Mul(h.avgCost, shares)
      realizedPL == Add(h.realizedPL, Sub(proceeds, costBasis))
      newShares == Sub(h.shares, shares)
      totalCost == Sub(h.totalCost, costBasis)
  IN  IF Lt(newShares, Epsilon)
      THEN [h EXCEPT !.realizedPL = realizedPL, !.shares = Zero, !.totalCost = Zero,
                     !.avgCost = Zero]
      ELSE [h EXCEPT !.realizedPL = realizedPL, !.shares = newShares,
                     !.totalCost = totalCost]

\* Mutant of ApplySell: no clamp at all.
ApplySell_NoClamp(h, price, shares, fee) ==
  LET proceeds == Sub(Mul(price, shares), fee)
      costBasis == Mul(h.avgCost, shares)
  IN  [h EXCEPT !.realizedPL = Add(h.realizedPL, Sub(proceeds, costBasis)),
                !.shares = Sub(h.shares, shares),
                !.totalCost = Sub(h.totalCost, costBasis)]

ApplySell(h, price, shares, fee) ==
  LET proceeds == Sub(Mul(price, shares), fee)
      costBasis == Mul(h.avgCost, shares)
      realizedPL == Add(h.realizedPL, Sub(proceeds, costBasis))
      newShares == Sub(h.shares, shares)
      totalCost == Sub(h.totalCost, costBasis)
  IN  IF Lt(newShares, Epsilon)
      THEN [h EXCEPT !.realizedPL = realizedPL, !.shares = Zero, !.totalCost = Zero]
      ELSE [h EXCEPT !.realizedPL = realizedPL, !.shares = newShares,
                     !.totalCost = totalCost]

ApplyDividend(h, price, fee) ==
  [h EXCEPT !.totalDividends = Add(h.totalDividends, Sub(price, fee))]

\* Mutant of ApplySplit: the shares are multiplied, avgCost is left as it was.
ApplySplit_KeepAvgCost(h, ratio) ==
  IF Gt(ratio, Zero)
  THEN [h EXCEPT !.shares = Mul(h.shares, ratio)]
  ELSE h

ApplySplit(h, ratio) ==
  IF Gt(ratio, Zero)
  THEN [h EXCEPT !.shares = Mul(h.shares, ratio), !.avgCost = Div(h.avgCost, ratio)]
  ELSE h

\* The branch of the forEach body taken for tx, on the symbol's Holding h.
ApplyTx(h, tx) ==
  LET price == OrZero(tx.price)
      shares == OrZero(tx.shares)
      fee == OrZero(tx.fee)
  IN  IF tx.type = BUY THEN ApplyBuy(h, price, shares, fee)
      ELSE IF tx.type = SELL THEN ApplySell(h, price, shares, fee)
      ELSE IF tx.type = DIVIDEND THEN ApplyDividend(h, price, fee)
      ELSE IF tx.type = SPLIT THEN ApplySplit(h, shares)
      ELSE h

\* holdingsMap with an entry for symbol (created when absent).
WithHolding(hm, symbol, prices) ==
  IF symbol \in DOMAIN hm THEN hm
  ELSE [s \in DOMAIN hm \cup {symbol} |->
          IF s = symbol THEN NewHolding(symbol, prices) ELSE hm[s]]

\* One iteration of sortedTx.forEach in calculateHoldings.
HoldingsStep(hm, tx, prices) ==
  IF ~HasSymbol(tx) THEN hm
  ELSE LET hm1 == WithHolding(hm, tx.symbol, prices)
       IN  [hm1 EXCEPT ![tx.symbol] = ApplyTx(hm1[tx.symbol], tx)]

\* The final .map() of calculateHoldings on one Holding.
FinalizeHolding(h, prices, targets) ==
  LET currentPrice == IF Truthy(prices[h.symbol]) THEN prices[h.symbol]
                      ELSE h.currentPrice
      marketValue == Mul(h.shares, currentPrice)
      unrealizedPL == Sub(marketValue, h.totalCost)
      unrealizedPLPercent == IF Gt(h.totalCost, Zero)
                             THEN Mul(Div(unrealizedPL, h.totalCost), Z(100))
                             ELSE Zero
  IN  [h EXCEPT !.currentPrice = currentPrice,
                !.marketValue = marketValue,
                !.unrealizedPL = unrealizedPL,
                !.unrealizedPLPercent = unrealizedPLPercent,
                !.totalReturn = Add(Add(unrealizedPL, h.realizedPL), h.totalDividends),
                !.targetAllocation = OrZero(targets[h.symbol])]

\* Mutant of KeepHolding: only open positions are kept.
KeepHolding_SharesOnly(h) == Gt(h.shares, Zero)

\* The .filter() predicate: h.shares > 0 || h.realizedPL !== 0 || h.totalDividends !== 0
KeepHolding(h) ==
  Gt(h.shares, Zero) \/ h.realizedPL # Zero \/ h.totalDividends # Zero

\* What calculateHoldings returns once the replay has produced hm: the kept
\* Holdings, by symbol.
HoldingsResult(hm, prices, targets) ==
  LET kept == {s \in DOMAIN hm : KeepHolding(FinalizeHolding(hm[s], prices, targets))}
  IN  [s \in kept |-> FinalizeHolding(hm[s], prices, targets)]

(***************************************************************************)
(* calculatePortfolioHistory: the replay state [invested, cash, holdings,  *)
(* points] and the forEach body.  holdings maps each symbol seen to        *)
(* [shares, lastPrice].                                                    *)
(***************************************************************************)
\* The date of the trailing point ('Now'); transaction dates are 1, 2, ...
Now == 0

RECURSIVE SumOver(_, _)
\* The sum of f[s] over the symbols s of S (Object.values(...).forEach(+=)).
SumOver(f, S) ==
  IF S = {} THEN Zero
  ELSE LET s == CHOOSE x \in S : TRUE
       IN  Add(f[s], SumOver(f, S \ {s}))

\* stockValue: sum of h.shares * h.lastPrice over the tracked symbols.
StockValue(holdings) ==
  SumOver([s \in DOMAIN holdings |-> Mul(holdings[s].shares, holdings[s].lastPrice)],
          DOMAIN holdings)

\* Mutant of InvestedAfter: a dividend is counted as contributed capital.
InvestedAfter_CountsDividend(invested, tx) ==
  IF tx.type \in {DEPOSIT, DIVIDEND} THEN Add(invested, OrZero(tx.price))
  ELSE IF tx.type = WITHDRAW THEN Sub(invested, OrZero(tx.price))
  ELSE invested

\* invested after the "Invested Logic" lines.
InvestedAfter(invested, tx) ==
  IF tx.type = DEPOSIT THEN Add(invested, OrZero(tx.price))
  ELSE IF tx.type = WITHDRAW THEN Sub(invested, OrZero(tx.price))
  ELSE invested

\* Mutant of CashAfterFunding: a withdrawal leaves cash alone.
CashAfterFunding_KeepsWithdrawn(cash, tx) ==
  LET amount == OrZero(tx.price)
  IN  IF tx.type = DEPOSIT THEN Add(cash, amount)
      ELSE IF tx.type = DIVIDEND THEN Add(cash, amount)
      ELSE cash

\* cash after the "Cash Logic" lines (deposits, withdrawals, dividends).
CashAfterFunding(cash, tx) ==
  LET amount == OrZero(tx.price)
  IN  IF tx.type = DEPOSIT THEN Add(cash, amount)
      ELSE IF tx.type = WITHDRAW THEN Sub(cash, amount)
      ELSE IF tx.type = DIVIDEND THEN Add(cash, amount)
      ELSE cash

\* Mutant of TradeAndSplit: a SPLIT multiplies shares and keeps lastPrice.
TradeAndSplit_SplitKeepsLastPrice(cash, holdings, tx) ==
  LET amount == OrZero(tx.price)
      shares == OrZero(tx.shares)
      fee == OrZero(tx.fee)
      hs == IF tx.symbol \in DOMAIN holdings THEN holdings
            ELSE [s \in DOMAIN holdings \cup {tx.symbol} |->
                    IF s = tx.symbol THEN [shares |-> Zero, lastPrice |-> Zero]
                    ELSE holdings[s]]
      h0 == hs[tx.symbol]
      h == IF Gt(amount, Zero) /\ tx.type \in {BUY, SELL}
           THEN [h0 EXCEPT !.lastPrice = amount] ELSE h0
      tradeTotal == Mul(amount, shares)
  IN  IF tx.type = BUY
      THEN [cash |-> Sub(cash, Add(tradeTotal, fee)),
            holdings |-> [hs EXCEPT ![tx.symbol] =
                            [h EXCEPT !.shares = Add(h.shares, shares)]]]
      ELSE IF tx.type = SELL
      THEN [cash |-> Add(cash, Sub(tradeTotal, fee)),
            holdings |-> [hs EXCEPT ![tx.symbol] =
                            [h EXCEPT !.shares = Sub(h.shares, shares)]]]
      ELSE IF tx.type = SPLIT
      THEN LET ratio == IF Truthy(shares) THEN shares ELSE Z(1)
           IN  [cash |-> cash,
                holdings |-> [hs EXCEPT ![tx.symbol] =
                                [h EXCEPT !.shares = Mul(h.shares, ratio)]]]
      ELSE [cash |-> cash, holdings |-> [hs EXCEPT ![tx.symbol] = h]]

\* The "Trade & Split Logic" block, run when tx.symbol is present: the new
\* [cash, holdings].
TradeAndSplit(cash, holdings, tx) ==
  LET amount == OrZero(tx.price)
      shares == OrZero(tx.shares)
      fee == OrZero(tx.fee)
      hs == IF tx.symbol \in DOMAIN holdings THEN holdings
            ELSE [s \in DOMAIN holdings \cup {tx.symbol} |->
                    IF s = tx.symbol THEN [shares |-> Zero, lastPrice |-> Zero]
                    ELSE holdings[s]]
      h0 == hs[tx.symbol]
      h == IF Gt(amount, Zero) /\ tx.type \in {BUY, SELL}
           THEN [h0 EXCEPT !.lastPrice = amount] ELSE h0
      tradeTotal == Mul(amount, shares)
  IN  IF tx.type = BUY
      THEN [cash |-> Sub(cash, Add(tradeTotal, fee)),
            holdings |-> [hs EXCEPT ![tx.symbol] =
                            [h EXCEPT !.shares = Add(h.shares, shares)]]]
      ELSE IF tx.type = SELL
      THEN [cash |-> Add(cash, Sub(tradeTotal, fee)),
            holdings |-> [hs EXCEPT ![tx.symbol] =
                            [h EXCEPT !.shares = Sub(h.shares, shares)]]]
      ELSE IF tx.type = SPLIT
      THEN LET ratio == IF Truthy(shares) THEN shares ELSE Z(1)
               h1 == [h EXCEPT !.shares = Mul(h.shares, ratio)]
           IN  [cash |-> cash,
                holdings |-> [hs EXCEPT ![tx.symbol] =
                                IF Gt(h1.lastPrice, Zero)
                                THEN [h1 EXCEPT !.lastPrice = Div(h1.lastPrice, ratio)]
                                ELSE h1]]
      ELSE [cash |-> cash, holdings |-> [hs EXCEPT ![tx.symbol] = h]]

\* Mutant of HistoryStep: the trade block runs without the tx.symbol guard for
\* cash, so a BUY or SELL without symbol still moves cash.
HistoryStep_CashWithoutSymbol(st, tx) ==
  LET invested == InvestedAfter(st.invested, tx)
      cash1 == CashAfterFunding(st.cash, tx)
      total == Mul(OrZero(tx.price), OrZero(tx.shares))
      ts == IF HasSymbol(tx) THEN TradeAndSplit(cash1, st.holdings, tx)
            ELSE [cash |-> IF tx.type = BUY THEN Sub(cash1, Add(total, OrZero(tx.fee)))
                           ELSE IF tx.type = SELL
                                THEN Add(cash1, Sub(total, OrZero(tx.fee)))
                           ELSE cash1,
                  holdings |-> st.holdings]
      point == [date |-> tx.date, invested |-> invested,
                value |-> Add(ts.cash, StockValue(ts.holdings))]
  IN  [invested |-> invested, cash |-> ts.cash, holdings |-> ts.holdings,
       points |-> Append(st.points, point)]

\* One iteration of sortedTx.forEach in calculatePortfolioHistory on the state
\* st = [invested, cash, holdings, points].
HistoryStep(st, tx) ==
  LET invested == InvestedAfter(st.invested, tx)
      cash1 == CashAfterFunding(st.cash, tx)
      ts == IF HasSymbol(tx) THEN TradeAndSplit(cash1, st.holdings, tx)
            ELSE [cash |-> cash1, holdings |-> st.holdings]
      point == [date |-> tx.date, invested |-> invested,
                value |-> Add(ts.cash, StockValue(ts.holdings))]
  IN  [invested |-> invested, cash |-> ts.cash, holdings |-> ts.holdings,
       points |-> Append(st.points, point)]

\* Mutant of NowPoint: the trailing point is valued at the last known prices.
NowPoint_AtLastPrices(st, currentPrices) ==
  [date |-> Now, invested |-> st.invested,
   value |-> Add(st.cash, StockValue(st.holdings))]

\* The trailing point: current prices where supplied, else the last known price.
NowPoint(st, currentPrices) ==
  LET worth == [s \in DOMAIN st.holdings |->
                  Mul(st.holdings[s].shares,
                      IF Truthy(currentPrices[s]) THEN currentPrices[s]
                      ELSE st.holdings[s].lastPrice)]
  IN  [date |-> Now, invested |-> st.invested,
       value |-> Add(st.cash, SumOver(worth, DOMAIN st.holdings))]

\* What calculatePortfolioHistory returns once the replay has reached st.
HistoryResult(st, currentPrices) ==
  IF st.points = << >> THEN << >>
  ELSE Append(st.points, NowPoint(st, currentPrices))

(***************************************************************************)
(* calculateMaxDrawdown                                                    *)
(***************************************************************************)
RECURSIVE DrawdownLoop_OverValue(_, _, _, _)
\* Mutant of DrawdownLoop: the fall is divided by the trough, not by the peak.
DrawdownLoop_OverValue(chartData, i, peak, maxDD) ==
  IF i > Len(chartData) THEN maxDD
  ELSE LET value == chartData[i].value
           peak1 == IF Gt(value, peak) THEN value ELSE peak
           dd == Div(Sub(peak1, value), value)
           maxDD1 == IF Gt(peak1, Zero) /\ Gt(dd, maxDD) THEN dd ELSE maxDD
       IN  DrawdownLoop_OverValue(chartData, i + 1, peak1, maxDD1)

RECURSIVE DrawdownLoop(_, _, _, _)
\* The for loop from index i with the running peak and maxDD.
DrawdownLoop(chartData, i, peak, maxDD) ==
  IF i > Len(chartData) THEN maxDD
  ELSE LET value == chartData[i].value
           peak1 == IF Gt(value, peak) THEN value ELSE peak
           dd == Div(Sub(peak1, value), peak1)
           maxDD1 == IF Gt(peak1, Zero) /\ Gt(dd, maxDD) THEN dd ELSE maxDD
       IN  DrawdownLoop(chartData, i + 1, peak1, maxDD1)

calculateMaxDrawdown(chartData) ==
  Mul(DrawdownLoop(chartData, 1, NegInf, Zero), Z(100))

(***************************************************************************)
(* Both functions as folds of their forEach bodies over a sorted ledger.   *)
(***************************************************************************)
EmptyMap == [s \in {} |-> Zero]

RECURSIVE ReplayHoldings(_, _, _)
\* holdingsMap after the first n transactions of sortedTx.
ReplayHoldings(txs, n, prices) ==
  IF n = 0 THEN EmptyMap
  ELSE HoldingsStep(ReplayHoldings(txs, n - 1, prices), txs[n], prices)

InitialHistory == [invested |-> Zero, cash |-> Zero, holdings |-> EmptyMap,
                   points |-> << >>]

RECURSIVE ReplayHistory(_, _)
\* calculatePortfolioHistory's locals after the first n transactions of sortedTx.
ReplayHistory(txs, n) ==
  IF n = 0 THEN InitialHistory
  ELSE HistoryStep(ReplayHistory(txs, n - 1), txs[n])

(***************************************************************************)
(* calculateMonthlyReturns(chartData), with the wall clock that new Date() *)
(* reads as a second argument.  Times are in half days; the calendar has    *)
(* months of DaysPerMonth days, day 1 being the first day of month 1, and  *)
(* a yearMonth is the number of the month.  The time zone is UTC.          *)
(***************************************************************************)
DaysPerMonth == 2

\* getDate(dStr): the clock for 'Now', else the date (midnight of its day).
GetDate(date, now) == IF date = Now THEN now ELSE date * Day

\* getYearMonth(date) of a time.
GetYearMonth(time) == ((time \div Day) - 1) \div DaysPerMonth + 1

\* new Date(year, month, 1).getTime(): the start of a month.
MonthStart(yearMonth) == ((yearMonth - 1) * DaysPerMonth + 1) * Day

RECURSIVE PointInsert(_, _, _)
\* The stable sort of the points by time, one insertion.
PointInsert(sorted, p, now) ==
  IF sorted = << >> THEN <<p>>
  ELSE LET last == sorted[Len(sorted)]
       IN  IF GetDate(last.date, now) - GetDate(p.date, now) <= 0 THEN Append(sorted, p)
           ELSE Append(PointInsert(SubSeq(sorted, 1, Len(sorted) - 1), p, now), last)

RECURSIVE SortPoints(_, _)
SortPoints(chartData, now) ==
  IF chartData = << >> THEN << >>
  ELSE PointInsert(SortPoints(SubSeq(chartData, 1, Len(chartData) - 1), now),
                   chartData[Len(chartData)], now)

RECURSIVE AdvanceIdx(_, _, _, _)
\* The inner while loop: dataIdx after the points before nextMonth.
AdvanceIdx(sorted, now, dataIdx, nextMonth) ==
  IF dataIdx <= Len(sorted) /\ GetDate(sorted[dataIdx].date, now) < nextMonth
  THEN AdvanceIdx(sorted, now, dataIdx + 1, nextMonth)
  ELSE dataIdx

RECURSIVE MonthlySnapshots_EmptyMonthIsZero(_, _, _, _, _, _)
\* Mutant of MonthlySnapshots: a month without points has the snapshot 0 / 0.
MonthlySnapshots_EmptyMonthIsZero(sorted, now, current, endMonth, dataIdx, lastState) ==
  IF current > endMonth THEN << >>
  ELSE LET idx == AdvanceIdx(sorted, now, dataIdx, MonthStart(current + 1))
           monthState == IF idx > dataIdx
                         THEN [value |-> sorted[idx - 1].value,
                               invested |-> sorted[idx - 1].invested]
                         ELSE [value |-> Zero, invested |-> Zero]
       IN  <<[yearMonth |-> current, value |-> monthState.value,
              invested |-> monthState.invested]>>
           \o MonthlySnapshots_EmptyMonthIsZero(sorted, now, current + 1, endMonth, idx,
                                                monthState)

RECURSIVE MonthlySnapshots(_, _, _, _, _, _)
\* The outer while loop from month current: one snapshot per month up to
\* endMonth, each with the last point of the month or the state carried over.
MonthlySnapshots(sorted, now, current, endMonth, dataIdx, lastState) ==
  IF current > endMonth THEN << >>
  ELSE LET idx == AdvanceIdx(sorted, now, dataIdx, MonthStart(current + 1))
           monthState == IF idx > dataIdx
                         THEN [value |-> sorted[idx - 1].value,
                               invested |-> sorted[idx - 1].invested]
                         ELSE lastState
       IN  <<[yearMonth |-> current, value |-> monthState.value,
              invested |-> monthState.invested]>>
           \o MonthlySnapshots(sorted, now, current + 1, endMonth, idx, monthState)

RECURSIVE MonthlyReturnsLoop_SkipsOnDenominator(_, _)
\* Mutant of MonthlyReturnsLoop: a month is skipped whenever its denominator
\* is 0.
MonthlyReturnsLoop_SkipsOnDenominator(snapshots, i) ==
  IF i > Len(snapshots) THEN << >>
  ELSE LET end == snapshots[i]
           start == IF i > 1 THEN snapshots[i - 1] ELSE [value |-> Zero, invested |-> Zero]
           netFlow == Sub(end.invested, start.invested)
           pnl == Sub(Sub(end.value, start.value), netFlow)
           denominator == Add(start.value, Div(netFlow, Z(2)))
           rest == MonthlyReturnsLoop_SkipsOnDenominator(snapshots, i + 1)
       IN  IF denominator # Zero
           THEN <<[yearMonth |-> end.yearMonth,
                   value |-> Mul(Div(pnl, denominator), Z(100)), pnl |-> pnl]>> \o rest
           ELSE rest

RECURSIVE MonthlyReturnsLoop(_, _)
\* The for loop over the snapshots from index i.
MonthlyReturnsLoop(snapshots, i) ==
  IF i > Len(snapshots) THEN << >>
  ELSE LET end == snapshots[i]
           start == IF i > 1 THEN snapshots[i - 1] ELSE [value |-> Zero, invested |-> Zero]
           netFlow == Sub(end.invested, start.invested)
           pnl == Sub(Sub(end.value, start.value), netFlow)
           denominator == Add(start.value, Div(netFlow, Z(2)))
           pct == IF denominator # Zero THEN Mul(Div(pnl, denominator), Z(100)) ELSE Zero
           rest == MonthlyReturnsLoop(snapshots, i + 1)
       IN  IF denominator # Zero \/ pnl # Zero
           THEN <<[yearMonth |-> end.yearMonth, value |-> pct, pnl |-> pnl]>> \o rest
           ELSE rest

calculateMonthlyReturns(chartData, now) ==
  IF Len(chartData) = 0 THEN << >>
  ELSE LET sorted == SortPoints(chartData, now)
           firstDate == GetDate(sorted[1].date, now)
           lastDate == GetDate(sorted[Len(sorted)].date, now)
           snapshots == MonthlySnapshots(sorted, now, GetYearMonth(firstDate),
                                         GetYearMonth(lastDate), 1,
                                         [value |-> Zero, invested |-> Zero])
       IN  MonthlyReturnsLoop(snapshots, 1)

(***************************************************************************)
(* [...transactions].sort((a, b) => new Date(a.date).getTime() -           *)
(* new Date(b.date).getTime()): the stable sort of a copy of the           *)
(* collection, by date.  Dates are valid ISO dates, given as day numbers.  *)
(***************************************************************************)
\* new Date(date).getTime(), in half days.
GetTime(date) == date * Day

\* The comparator: negative when a is before b, 0 on the same date.
CompareDates(a, b) == GetTime(a.date) - GetTime(b.date)

RECURSIVE SortInsert_BeforeTies(_, _)
\* Mutant of SortInsert: tx goes before the entries of its own date.
SortInsert_BeforeTies(sorted, tx) ==
  IF sorted = << >> THEN <<tx>>
  ELSE LET last == sorted[Len(sorted)]
       IN  IF CompareDates(last, tx) < 0 THEN Append(sorted, tx)
           ELSE Append(SortInsert_BeforeTies(SubSeq(sorted, 1, Len(sorted) - 1), tx),
                       last)

RECURSIVE SortInsert(_, _)
\* sorted with tx placed after every entry that does not compare greater (the
\* sort is stable: entries that compare equal keep their input order).
SortInsert(sorted, tx) ==
  IF sorted = << >> THEN <<tx>>
  ELSE LET last == sorted[Len(sorted)]
       IN  IF CompareDates(last, tx) <= 0 THEN Append(sorted, tx)
           ELSE Append(SortInsert(SubSeq(sorted, 1, Len(sorted) - 1), tx), last)

\* Mutant of SortByDate: the collection is replayed as given.
SortByDate_AsGiven(txs) == txs

RECURSIVE SortByDate(_)
\* The sorted copy of txs.
SortByDate(txs) ==
  IF txs = << >> THEN << >>
  ELSE SortInsert(SortByDate(SubSeq(txs, 1, Len(txs) - 1)), txs[Len(txs)])

(***************************************************************************)
(* The replay as a state machine.  prices is the price map both functions  *)
(* are called with, transactions the collection they are called with and   *)
(* sortedTx the part of the date-sorted ledger replayed so far (here the   *)
(* collection is drawn in date order, one record per step); holdingsMap is calculateHoldings' local map; invested, *)
(* cash, holdings and points are calculatePortfolioHistory's locals.  Each *)
(* step folds the next transaction of the sorted ledger into both, as the  *)
(* App calls both functions on the same ledger.  pre records the locals    *)
(* before the last step.  pc tells whether the calls are running or have   *)
(* returned, and returned lists the calls made so far, each with its       *)
(* ledger and what the two functions returned for it.  clock is the wall   *)
(* clock (in half days) and monthly lists the calls of                    *)
(* calculateMonthlyReturns on the returned timeline, each with the clock   *)
(* at the call and the list it returned.  goals is the App's list of       *)
(* FinancialGoals, editingGoal the copy of a goal that GoalModal holds     *)
(* while it is edited, and goalOp the last goal operation.  csvHeaders is  *)
(* the header line of the CSV file that csvToTransactions is parsing (no   *)
(* columns: no file) and csvRows lists the lines parsed so far, each with  *)
(* its cells and the Transaction emitted for it, if any.                   *)
(***************************************************************************)
VARIABLES prices, transactions, sortedTx, holdingsMap, invested, cash, holdings,
          points, pre, pc, returned, clock, monthly, goals, editingGoal, goalOp,
          csvHeaders, csvRows, growthView, portfolios, activePortfolioId,
          localStorage, isDataLoaded, isFirstMount, rendered, effects, frames,
          switched, editingTransaction, isAddModalOpen, ledgerOp

vars == <<prices, transactions, sortedTx, holdingsMap, invested, cash, holdings,
          points, pre, pc, returned, clock, monthly, goals, editingGoal, goalOp,
          csvHeaders, csvRows, growthView, portfolios, activePortfolioId,
          localStorage, isDataLoaded, isFirstMount, rendered, effects, frames,
          switched, editingTransaction, isAddModalOpen, ledgerOp>>

\* The price map, the ledger and the locals and calls of the replay.
replayVars == <<prices, transactions, sortedTx, holdingsMap, invested, cash, holdings,
                points, pre, pc, returned>>

\* The wall clock and the calls of calculateMonthlyReturns: the replay does not
\* touch them.
analyticsVars == <<clock, monthly>>

\* The goal list of the App, the goal GoalModal is editing and the last goal
\* operation.
goalVars == <<goals, editingGoal, goalOp>>

\* The CSV file being imported: its header line and the lines parsed so far.
csvVars == <<csvHeaders, csvRows>>

\* What GrowthView last rendered.
growthVars == <<growthView>>

\* The portfolio state of the App, the browser's localStorage, the effects of
\* the last render still to run, the animation frames requested, and the last
\* switch of portfolio.
appVars == <<portfolios, activePortfolioId, localStorage, isDataLoaded, isFirstMount,
             rendered, effects, frames, switched>>

\* The transaction the add-transaction form was opened with, whether the form
\* is shown, and the last operation on the ledger with the ledger before it.
formVars == <<editingTransaction, isAddModalOpen, ledgerOp>>

\* The locals and calls of the replay, without the ledger.
derivedVars == <<prices, sortedTx, holdingsMap, invested, cash, holdings, points, pre,
                 pc, returned>>

\* Bounds of the model.
MaxTx == 3
MaxDate == 1
MaxQty == 2
MaxPrice == 2
NumSymbols == 1
MaxCalls == 3
MaxCallTx == 2

\* The clock when the program starts: noon of day 1.
ClockStart == Day + HalfDay

\* A FinancialGoal is [id, targetAmount, startDate, endDate, isAchieved];
\* NoEndDate is an absent endDate.  Ids are numbered 1, 2, ...
NoEndDate == 0
NoGoal == [id |-> 0]

\* The goal list of a first launch: one goal, 'Initial Goal', with the id the
\* first generateId() returns (no other id exists yet).
InitialGoal ==
  [id |-> 1, targetAmount |-> Z(100000), startDate |-> ClockStart,
   endDate |-> NoEndDate, isAchieved |-> FALSE]

\* Nothing rendered yet.
NoGrowthView == [rendered |-> FALSE]

\* Portfolio ids are numbered 1, 2, ...; DefaultId is the id 'default'.
DefaultId == 0

\* localStorage before anything is stored: items lists the keys 'portfolios'
\* and 'activePortfolioId' that have a value, transactions maps each id with a
\* key 'transactions_<id>' to the ledger stored under it.
EmptyStorage ==
  [items |-> {}, portfolios |-> << >>, activePortfolioId |-> 0,
   transactions |-> [id \in {} |-> << >>]]

\* The four effects of the App in the order they are declared: the
\* persistence of portfolios and of activePortfolioId, the switch of portfolio,
\* and the persistence of the transactions.
AllEffects == <<"persistPortfolios", "persistActivePortfolioId", "switchPortfolio",
                "persistTransactions">>

\* What a render closes over.
RenderOf(ps, id, txs, loaded) ==
  [portfolios |-> ps, activePortfolioId |-> id, transactions |-> txs,
   isDataLoaded |-> loaded]

\* No switch of portfolio yet, and no transaction in the form.
NoSwitch == [to |-> -1]
NoTransaction == [id |-> 0]

Symbols == 1..NumSymbols
Dates == 1..MaxDate
Quantities == {Z(q) : q \in 0..MaxQty}
Prices == {Z(p) : p \in 1..MaxPrice}
Fees == {Undef, Z(1)}
LivePrices == {Undef, Z(3)}
TargetPercents == {Undef, Z(50)}

PriceMaps == [Symbols -> LivePrices]
TargetMaps == [Symbols -> TargetPercents]

\* The transactions of each type that a ledger may hold.
TradeTxs(type) ==
  [date : Dates, type : {type}, symbol : Symbols \cup {NoSymbol},
   shares : Quantities, price : Prices, fee : Fees]

DividendTxs ==
  [date : Dates, type : {DIVIDEND}, symbol : Symbols \cup {NoSymbol},
   shares : {Undef}, price : Prices, fee : Fees]

SplitTxs ==
  [date : Dates, type : {SPLIT}, symbol : Symbols \cup {NoSymbol},
   shares : Quantities, price : {Zero}, fee : {Undef}]

FundingTxs(type) ==
  [date : Dates, type : {type}, symbol : {NoSymbol},
   shares : {Undef}, price : Prices, fee : {Undef}]

HistoryState == [invested |-> invested, cash |-> cash, holdings |-> holdings,
                 points |-> points]

Locals == [holdingsMap |-> holdingsMap, invested |-> invested, cash |-> cash,
           holdings |-> holdings, points |-> points]

\* The App on a first launch, with an empty localStorage, before the effects
\* of the first render have run: portfolios falls back to one portfolio with a
\* generated id, activePortfolioId to 'default', the ledger to [].
InitApp ==
  /\ growthView = NoGrowthView
  /\ portfolios = <<[id |-> 1, name |-> 1]>>
  /\ activePortfolioId = DefaultId
  /\ localStorage = EmptyStorage
  /\ isDataLoaded = TRUE
  /\ isFirstMount = TRUE
  /\ rendered = RenderOf(<<[id |-> 1, name |-> 1]>>, DefaultId, << >>, TRUE)
  /\ effects = AllEffects
  /\ frames = << >>
  /\ switched = NoSwitch
  /\ editingTransaction = NoTransaction
  /\ isAddModalOpen = FALSE
  /\ ledgerOp = [op |-> "none"]

Init ==
  /\ prices \in PriceMaps
  /\ transactions = << >>
  /\ sortedTx = << >>
  /\ holdingsMap = EmptyMap
  /\ invested = Zero
  /\ cash = Zero
  /\ holdings = EmptyMap
  /\ points = << >>
  /\ pre = [holdingsMap |-> EmptyMap, invested |-> Zero, cash |-> Zero,
            holdings |-> EmptyMap, points |-> << >>]
  /\ pc = "running"
  /\ returned = << >>
  /\ clock = ClockStart
  /\ monthly = << >>
  /\ goals = <<InitialGoal>>
  /\ editingGoal = NoGoal
  /\ goalOp = "init"
  /\ csvHeaders = << >>
  /\ csvRows = << >>
  /\ InitApp

\* The date of the last transaction replayed (the ledger is replayed sorted).
LastDate == IF sortedTx = << >> THEN 1 ELSE sortedTx[Len(sortedTx)].date

\* Both forEach bodies on the next transaction tx of the sorted ledger.
ReplayStep(tx) ==
  /\ sortedTx' = Append(sortedTx, tx)
  /\ holdingsMap' = HoldingsStep(holdingsMap, tx, prices)
  /\ LET st == HistoryStep(HistoryState, tx)
     IN  /\ invested' = st.invested
         /\ cash' = st.cash
         /\ holdings' = st.holdings
         /\ points' = st.points
  /\ pre' = Locals
  /\ UNCHANGED <<prices, pc, returned>>
  /\ UNCHANGED <<analyticsVars, goalVars, csvVars, growthVars, appVars, formVars>>

\* The collection is extended by tx, in date order, and tx is replayed.
Replay(tx) ==
  /\ pc = "running"
  /\ Len(sortedTx) < MaxTx
  /\ tx.date >= LastDate
  /\ transactions' = Append(transactions, tx)
  /\ ReplayStep(tx)

ReplayBuy == \E tx \in TradeTxs(BUY) : Replay(tx)
ReplaySell == \E tx \in TradeTxs(SELL) : Replay(tx)
ReplayDividend == \E tx \in DividendTxs : Replay(tx)
ReplaySplit == \E tx \in SplitTxs : Replay(tx)
ReplayDeposit == \E tx \in FundingTxs(DEPOSIT) : Replay(tx)
ReplayWithdraw == \E tx \in FundingTxs(WITHDRAW) : Replay(tx)

Next ==
  \/ ReplayBuy
  \/ ReplaySell
  \/ ReplayDividend
  \/ ReplaySplit
  \/ ReplayDeposit
  \/ ReplayWithdraw

Spec == Init /\ [][Next]_vars

(***************************************************************************)
(* Views of the state used by the properties.                              *)
(***************************************************************************)
Replayed == Len(sortedTx)

\* The transaction just replayed (when Replayed > 0).
LastTx == sortedTx[Len(sortedTx)]

\* The accumulator of symbol s in map hm as the forEach body sees it: the
\* existing entry, or the fresh one it creates.
HoldingIn(hm, s) == IF s \in DOMAIN hm THEN hm[s] ELSE NewHolding(s, prices)

\* The Holding of the last transaction's symbol before and after the step.
Before == HoldingIn(pre.holdingsMap, LastTx.symbol)
After == holdingsMap[LastTx.symbol]

LastIs(type) == Replayed > 0 /\ LastTx.type = type /\ HasSymbol(LastTx)

\* What the two functions return for the ledger replayed so far.
ReturnedHoldings(targets) == HoldingsResult(holdingsMap, prices, targets)
ReturnedHistory == HistoryResult(HistoryState, prices)

\* The stepwise replay is the fold of the two forEach bodies.
ReplayIsFold ==
  /\ holdingsMap = ReplayHoldings(sortedTx, Replayed, prices)
  /\ HistoryState = ReplayHistory(sortedTx, Replayed)

(***************************************************************************)
(* C1  Cost basis of a BUY-only ledger                                     *)
(***************************************************************************)
RECURSIVE BuyCost(_, _, _)
\* Sum of price*shares + fee over the BUYs of symbol s among the first n of txs.
BuyCost(txs, n, s) ==
  IF n = 0 THEN Zero
  ELSE LET tx == txs[n]
           rest == BuyCost(txs, n - 1, s)
       IN  IF tx.type = BUY /\ tx.symbol = s
           THEN Add(rest, Add(Mul(OrZero(tx.price), OrZero(tx.shares)), OrZero(tx.fee)))
           ELSE rest

RECURSIVE BuyQty(_, _, _)
\* Sum of the quantities of the BUYs of symbol s among the first n of txs.
BuyQty(txs, n, s) ==
  IF n = 0 THEN Zero
  ELSE LET tx == txs[n]
           rest == BuyQty(txs, n - 1, s)
       IN  IF tx.type = BUY /\ tx.symbol = s THEN Add(rest, OrZero(tx.shares))
           ELSE rest

OnlyBuys == \A i \in 1..Replayed : sortedTx[i].type = BUY

\* C1: while only BUYs have been replayed, every symbol's accumulator has
\* totalCost = the sum of (price*shares + fee) and shares = the sum of the
\* quantities of its BUYs so far, and avgCost is the quotient totalCost / shares
\* of these two sums (for a positive quantity: a finite number with
\* avgCost * shares = totalCost).
C1_CostBasis ==
  OnlyBuys =>
    \A s \in DOMAIN holdingsMap :
      LET h == holdingsMap[s]
          cost == BuyCost(sortedTx, Replayed, s)
          qty == BuyQty(sortedTx, Replayed, s)
      IN  /\ h.totalCost = cost
          /\ h.shares = qty
          /\ h.avgCost = Div(cost, qty)
          /\ Gt(qty, Zero) => /\ IsFinite(h.avgCost)
                              /\ Mul(h.avgCost, h.shares) = h.totalCost

\* Two BUYs of one symbol at different prices, the second with a fee.
C1_Witness ==
  /\ OnlyBuys
  /\ Replayed >= 2
  /\ HasSymbol(sortedTx[1])
  /\ sortedTx[2].symbol = sortedTx[1].symbol
  /\ sortedTx[1].price # sortedTx[2].price
  /\ Truthy(sortedTx[1].shares) /\ Truthy(sortedTx[2].shares)
  /\ Truthy(sortedTx[2].fee)

(***************************************************************************)
(* C2  Split neutrality                                                    *)
(***************************************************************************)
\* C2: a SPLIT with ratio r > 0 multiplies the Holding's shares by r, divides
\* its avgCost by r and leaves totalCost, and the product shares * avgCost,
\* unchanged.
C2_SplitNeutral ==
  (LastIs(SPLIT) /\ Gt(OrZero(LastTx.shares), Zero)) =>
    LET r == OrZero(LastTx.shares)
    IN  /\ After.shares = Mul(Before.shares, r)
        /\ After.avgCost = Div(Before.avgCost, r)
        /\ After.totalCost = Before.totalCost
        /\ Mul(After.shares, After.avgCost) = Mul(Before.shares, Before.avgCost)

\* A 2-for-1 split of a position that holds shares at a positive cost.
C2_Witness ==
  /\ LastIs(SPLIT)
  /\ LastTx.shares = Z(2)
  /\ Gt(Before.shares, Zero)
  /\ Gt(Before.avgCost, Zero)
  /\ After.shares = Mul(Before.shares, Z(2))
  /\ After.totalCost = Mul(After.shares, After.avgCost)

(***************************************************************************)
(* C3  Sign of the realized P/L of a SELL                                  *)
(***************************************************************************)
\* C3 as claimed, for a SELL of a positive quantity of shares that are held: a
\* SELL above avgCost raises realizedPL, one below lowers it, one at avgCost
\* leaves it unchanged.
C3_SignAsClaimed ==
  (/\ LastIs(SELL)
   /\ Gt(OrZero(LastTx.shares), Zero)
   /\ Le(OrZero(LastTx.shares), Before.shares)) =>
    LET price == OrZero(LastTx.price)
    IN  /\ Gt(price, Before.avgCost) => Gt(After.realizedPL, Before.realizedPL)
        /\ Lt(price, Before.avgCost) => Lt(After.realizedPL, Before.realizedPL)
        /\ Eq(price, Before.avgCost) => Eq(After.realizedPL, Before.realizedPL)

\* C3 amended: a SELL adds (price*shares - fee) - avgCost*shares to realizedPL,
\* so the sign rule holds for a SELL of a positive quantity without fee (on an
\* accumulator whose realizedPL is a finite number).
C3_SignNoFee ==
  LastIs(SELL) =>
    LET price == OrZero(LastTx.price)
        qty == OrZero(LastTx.shares)
        fee == OrZero(LastTx.fee)
    IN  /\ After.realizedPL =
             Add(Before.realizedPL,
                 Sub(Sub(Mul(price, qty), fee), Mul(Before.avgCost, qty)))
        /\ (fee = Zero /\ Gt(qty, Zero) /\ IsFinite(Before.realizedPL)) =>
             /\ Gt(price, Before.avgCost) => Gt(After.realizedPL, Before.realizedPL)
             /\ Lt(price, Before.avgCost) => Lt(After.realizedPL, Before.realizedPL)
             /\ Eq(price, Before.avgCost) => Eq(After.realizedPL, Before.realizedPL)

\* A fee-free SELL of held shares above their average cost, with a gain.
C3_Witness ==
  /\ LastIs(SELL)
  /\ OrZero(LastTx.fee) = Zero
  /\ Gt(Before.shares, Zero)
  /\ Gt(OrZero(LastTx.shares), Zero)
  /\ Gt(OrZero(LastTx.price), Before.avgCost)
  /\ Gt(After.realizedPL, Before.realizedPL)

(***************************************************************************)
(* C4  Zero residue                                                        *)
(***************************************************************************)
\* C4: a SELL of exactly the shares held leaves shares = 0 and totalCost = 0.
C4_ZeroResidue ==
  (LastIs(SELL) /\ Eq(OrZero(LastTx.shares), Before.shares)) =>
    /\ After.shares = Zero
    /\ After.totalCost = Zero

\* The whole of a position built by a BUY and a SPLIT is sold.
C4_Witness ==
  /\ Replayed = 3
  /\ sortedTx[1].type = BUY
  /\ sortedTx[2].type = SPLIT
  /\ LastIs(SELL)
  /\ Gt(Before.shares, Zero)
  /\ Gt(Before.totalCost, Zero)
  /\ LastTx.shares = Before.shares
  /\ After.shares = Zero
  /\ After.totalCost = Zero

(***************************************************************************)
(* C5  invested moves only on DEPOSIT and WITHDRAW                         *)
(***************************************************************************)
\* C5: in the returned timeline, the point of a DEPOSIT carries the previous
\* point's invested plus its amount, the point of a WITHDRAW the previous
\* invested minus its amount, and every other point (BUY, SELL, DIVIDEND, SPLIT
\* and the trailing 'Now' point) the same invested as the point before it.
C5_InvestedFrame ==
  LET H == ReturnedHistory
  IN  \A i \in 2..Len(H) :
        LET change == Sub(H[i].invested, H[i - 1].invested)
        IN  IF i > Replayed THEN H[i].date = Now /\ change = Zero
            ELSE IF sortedTx[i].type = DEPOSIT
                 THEN change = OrZero(sortedTx[i].price)
            ELSE IF sortedTx[i].type = WITHDRAW
                 THEN change = Neg(OrZero(sortedTx[i].price))
            ELSE change = Zero

\* A DEPOSIT, then a DIVIDEND and a BUY of a symbol: four points, the last
\* three with the DEPOSIT's invested.
C5_Witness ==
  /\ Replayed = 3
  /\ sortedTx[1].type = DEPOSIT
  /\ sortedTx[2].type = DIVIDEND /\ HasSymbol(sortedTx[2])
  /\ sortedTx[3].type = BUY /\ HasSymbol(sortedTx[3])
  /\ Truthy(sortedTx[3].shares)
  /\ Len(ReturnedHistory) = 4
  /\ ReturnedHistory[4].date = Now
  /\ ReturnedHistory[4].invested = sortedTx[1].price
  /\ ReturnedHistory[3].value # ReturnedHistory[1].value

(***************************************************************************)
(* C6  Range of calculateMaxDrawdown                                       *)
(***************************************************************************)
\* C6 as claimed, on the ledgers of deposits and withdrawals only (they may
\* overdraw cash): calculateMaxDrawdown of the returned timeline is in [0, 100].
C6_DrawdownInRange ==
  (\A i \in 1..Replayed : sortedTx[i].type \in {DEPOSIT, WITHDRAW}) =>
    LET dd == calculateMaxDrawdown(ReturnedHistory)
    IN  Le(Zero, dd) /\ Le(dd, Z(100))

\* C6 amended: calculateMaxDrawdown of every returned timeline is a finite number
\* >= 0, and it is <= 100 when no point of the timeline has a negative value.
C6_DrawdownBounded ==
  LET H == ReturnedHistory
      dd == calculateMaxDrawdown(H)
  IN  /\ IsFinite(dd)
      /\ Le(Zero, dd)
      /\ (\A i \in 1..Len(H) : Le(Zero, H[i].value)) => Le(dd, Z(100))

\* A timeline without negative values that falls from its peak.
C6_Witness ==
  /\ Replayed = 3
  /\ \A i \in 1..Len(ReturnedHistory) : Le(Zero, ReturnedHistory[i].value)
  /\ Gt(ReturnedHistory[2].value, ReturnedHistory[1].value)
  /\ Gt(ReturnedHistory[3].value, Zero)
  /\ Lt(ReturnedHistory[3].value, ReturnedHistory[2].value)
  /\ Gt(calculateMaxDrawdown(ReturnedHistory), Zero)
  /\ Lt(calculateMaxDrawdown(ReturnedHistory), Z(100))

(***************************************************************************)
(* C7  Repeated calls                                                      *)
(*                                                                         *)
(* The calls, one after the other: a call replays its ledger and returns;  *)
(* the next call starts with the locals the two functions declare.  The    *)
(* price map is the same for all calls.                                    *)
(***************************************************************************)
\* The ledgers of the repeated calls hold these: one transaction of each type.
CallTxs ==
  {tx \in TradeTxs(BUY) \cup TradeTxs(SELL) \cup DividendTxs \cup SplitTxs
          \cup FundingTxs(DEPOSIT) \cup FundingTxs(WITHDRAW) :
     /\ tx.date = 1
     /\ tx.symbol = (IF tx.type \in {DEPOSIT, WITHDRAW} THEN NoSymbol ELSE 1)
     /\ tx.shares \in {Undef, Z(2)}
     /\ tx.price \in {Zero, Z(1)}
     /\ tx.fee = Undef}

CallReplay == \E tx \in CallTxs : Len(sortedTx) < MaxCallTx /\ Replay(tx)

\* Both functions return: the call is recorded with its ledger and results.
Return ==
  /\ pc = "running"
  /\ Len(returned) < MaxCalls
  /\ returned' = Append(returned,
                        [transactions |-> sortedTx,
                         holdings |-> [t \in TargetMaps |-> ReturnedHoldings(t)],
                         history |-> ReturnedHistory])
  /\ pc' = "returned"
  /\ UNCHANGED <<prices, transactions, sortedTx, holdingsMap, invested, cash, holdings,
                 points, pre>>
  /\ UNCHANGED <<analyticsVars, goalVars, csvVars, growthVars, appVars, formVars>>

\* Mutant of CallHoldings: the map outlives the call (a module-level map).
CallHoldings_KeepsMap == UNCHANGED holdingsMap

\* const holdingsMap = {} at the start of calculateHoldings.
CallHoldings == holdingsMap' = EmptyMap

\* The locals declared at the start of calculatePortfolioHistory.
CallHistory ==
  /\ points' = << >>
  /\ invested' = Zero
  /\ cash' = Zero
  /\ holdings' = EmptyMap

\* The next call of both functions begins.
Call ==
  /\ pc = "returned"
  /\ Len(returned) < MaxCalls
  /\ CallHoldings
  /\ CallHistory
  /\ transactions' = << >>
  /\ sortedTx' = << >>
  /\ pre' = [holdingsMap |-> EmptyMap, invested |-> Zero, cash |-> Zero,
             holdings |-> EmptyMap, points |-> << >>]
  /\ pc' = "running"
  /\ UNCHANGED <<prices, returned>>
  /\ UNCHANGED <<analyticsVars, goalVars, csvVars, growthVars, appVars, formVars>>

NextCalls ==
  \/ CallReplay
  \/ Return
  \/ Call

SpecCalls == Init /\ [][NextCalls]_vars

\* C7: two calls with the same transactions (and the same prices and targets)
\* return equal holdings and equal timelines, whatever was called in between.
C7_SameInputSameOutput ==
  \A i, j \in 1..Len(returned) :
    returned[i].transactions = returned[j].transactions =>
      /\ returned[i].holdings = returned[j].holdings
      /\ returned[i].history = returned[j].history

\* Three calls: the first and the third with the same ledger of two records, the
\* second with another ledger; the ledger yields a Holding and three points.
C7_Witness ==
  /\ Len(returned) = 3
  /\ returned[1].transactions = returned[3].transactions
  /\ returned[2].transactions # returned[1].transactions
  /\ returned[2].transactions # << >>
  /\ Len(returned[3].transactions) = 2
  /\ \A t \in TargetMaps : DOMAIN returned[3].holdings[t] # {}
  /\ Len(returned[3].history) = 3

(***************************************************************************)
(* C8  shares >= 0 in the output                                           *)
(***************************************************************************)
\* C8: every returned Holding has shares >= 0 (quantities, prices and fees of the
\* ledger are non-negative; a SELL may exceed the shares held).
C8_SharesNonNegative ==
  \A targets \in TargetMaps :
    \A s \in DOMAIN ReturnedHoldings(targets) :
      Le(Zero, ReturnedHoldings(targets)[s].shares)

\* A SELL of more than the shares held; the Holding is returned with 0 shares.
C8_Witness ==
  /\ LastIs(SELL)
  /\ Gt(Before.shares, Zero)
  /\ Gt(OrZero(LastTx.shares), Before.shares)
  /\ \A targets \in TargetMaps :
       /\ LastTx.symbol \in DOMAIN ReturnedHoldings(targets)
       /\ ReturnedHoldings(targets)[LastTx.symbol].shares = Zero

(***************************************************************************)
(* C9  A trade-type record without symbol                                  *)
(***************************************************************************)
\* txs without its i-th element.
Without(txs, i) == SubSeq(txs, 1, i - 1) \o SubSeq(txs, i + 1, Len(txs))

SymbolLess(tx) == tx.type \in {BUY, SELL, DIVIDEND, SPLIT} /\ ~HasSymbol(tx)

\* The two outputs for the ledger txs.
HoldingsOf(txs, targets) ==
  HoldingsResult(ReplayHoldings(txs, Len(txs), prices), prices, targets)
HistoryOf(txs) == HistoryResult(ReplayHistory(txs, Len(txs)), prices)

NumericFields(h) ==
  {h.shares, h.avgCost, h.totalCost, h.currentPrice, h.marketValue, h.unrealizedPL,
   h.unrealizedPLPercent, h.realizedPL, h.totalDividends, h.totalReturn,
   h.targetAllocation}

\* C10 as claimed: every numeric field of every returned Holding is a finite
\* number, avgCost is 0 when the shares are 0 after a BUY, and
\* unrealizedPLPercent is 0 when totalCost is 0.
C10_FiniteOutput ==
  \A targets \in TargetMaps :
    \A s \in DOMAIN ReturnedHoldings(targets) :
      LET h == ReturnedHoldings(targets)[s]
      IN  /\ \A x \in NumericFields(h) : IsFinite(x)
          /\ (LastIs(BUY) /\ LastTx.symbol = s /\ h.shares = Zero) => h.avgCost = Zero
          /\ h.totalCost = Zero => h.unrealizedPLPercent = Zero

(***************************************************************************)
(* C11  totalCost = shares * avgCost                                       *)
(***************************************************************************)
\* Every BUY, SELL and SPLIT of the ledger has a positive quantity (ratio).
PositiveQuantities ==
  \A i \in 1..Replayed :
    sortedTx[i].type \in {BUY, SELL, SPLIT} => Gt(OrZero(sortedTx[i].shares), Zero)

\* C11: for a ledger whose BUYs, SELLs and SPLITs have positive quantities,
\* every returned Holding has totalCost = shares * avgCost (as numbers, rounding
\* apart), whether the last SELL was partial, full or clamped.
C11_CostIdentity ==
  PositiveQuantities =>
    \A targets \in TargetMaps :
      \A s \in DOMAIN ReturnedHoldings(targets) :
        LET h == ReturnedHoldings(targets)[s]
        IN  h.totalCost = Mul(h.shares, h.avgCost)

\* A BUY with a fee, a partial SELL and a SPLIT of the same symbol: the Holding
\* is returned with shares left and a positive basis.
C11_Witness ==
  /\ Replayed = 3
  /\ PositiveQuantities
  /\ sortedTx[1].type = BUY /\ sortedTx[2].type = SELL /\ sortedTx[3].type = SPLIT
  /\ \A i \in 1..3 : HasSymbol(sortedTx[i])
  /\ Truthy(sortedTx[1].fee)
  /\ Gt(OrZero(sortedTx[3].shares), Z(1))
  /\ \A targets \in TargetMaps :
       /\ LastTx.symbol \in DOMAIN ReturnedHoldings(targets)
       /\ Gt(ReturnedHoldings(targets)[LastTx.symbol].shares, Zero)
       /\ Gt(ReturnedHoldings(targets)[LastTx.symbol].totalCost, Zero)

(***************************************************************************)
(* C12  Which symbols are returned                                         *)
(***************************************************************************)
\* Symbol s occurs in a record of the ledger.
Seen(s) == \E i \in 1..Replayed : sortedTx[i].symbol = s

\* C12: a symbol is returned exactly when it occurs in the ledger and, after the
\* replay, has shares > 0 or realizedPL # 0 or totalDividends # 0; the returned
\* Holdings are one per symbol (each carries the symbol it is returned for) and
\* none is returned for records without symbol.
C12_RetainedIff ==
  \A targets \in TargetMaps :
    /\ \A s \in Symbols :
         s \in DOMAIN ReturnedHoldings(targets) <=>
           /\ Seen(s)
           /\ \/ Gt(holdingsMap[s].shares, Zero)
              \/ holdingsMap[s].realizedPL # Zero
              \/ holdingsMap[s].totalDividends # Zero
    /\ DOMAIN ReturnedHoldings(targets) \subseteq Symbols
    /\ \A s \in DOMAIN ReturnedHoldings(targets) :
         ReturnedHoldings(targets)[s].symbol = s

\* A position bought and sold at its cost, without fee or dividend: the symbol
\* was seen and is not returned.
C12_Witness ==
  /\ Replayed = 2
  /\ sortedTx[1].type = BUY /\ sortedTx[2].type = SELL
  /\ sortedTx[1].symbol = 1 /\ sortedTx[2].symbol = 1
  /\ Gt(pre.holdingsMap[1].shares, Zero)
  /\ holdingsMap[1].shares = Zero
  /\ holdingsMap[1].realizedPL = Zero
  /\ \A targets \in TargetMaps : 1 \notin DOMAIN ReturnedHoldings(targets)

(***************************************************************************)
(* C13, C14  A call on a collection given in any order                     *)
(*                                                                         *)
(* The collection is gathered record by record, in any order of dates;     *)
(* then both functions are called on it: each replays the sorted copy and  *)
(* returns.                                                                *)
(***************************************************************************)
MaxSortTx == 3
MaxSortDate == 2

\* The records of such a collection: for each date, a BUY and a SELL of 2 shares
\* at each price, a DIVIDEND, DEPOSIT and WITHDRAW of each amount, and a SPLIT
\* 2:1.
SortTxs ==
  {[tx EXCEPT !.date = d] :
     tx \in {t \in TradeTxs(BUY) \cup TradeTxs(SELL) \cup DividendTxs \cup SplitTxs
                   \cup FundingTxs(DEPOSIT) \cup FundingTxs(WITHDRAW) :
               /\ t.date = 1
               /\ t.symbol = (IF t.type \in {DEPOSIT, WITHDRAW} THEN NoSymbol ELSE 1)
               /\ t.shares \in {Undef, Z(2)}
               /\ t.fee = Undef},
     d \in 1..MaxSortDate}

InitSort ==
  /\ prices \in PriceMaps
  /\ transactions = << >>
  /\ sortedTx = << >>
  /\ holdingsMap = EmptyMap
  /\ invested = Zero
  /\ cash = Zero
  /\ holdings = EmptyMap
  /\ points = << >>
  /\ pre = [holdingsMap |-> EmptyMap, invested |-> Zero, cash |-> Zero,
            holdings |-> EmptyMap, points |-> << >>]
  /\ pc = "collecting"
  /\ returned = << >>
  /\ clock = ClockStart
  /\ monthly = << >>
  /\ goals = <<InitialGoal>>
  /\ editingGoal = NoGoal
  /\ goalOp = "init"
  /\ csvHeaders = << >>
  /\ csvRows = << >>
  /\ InitApp

\* A record is added to the collection (App: [...prev, tx]).
Collect ==
  \E tx \in SortTxs :
    /\ pc = "collecting"
    /\ Len(transactions) < MaxSortTx
    /\ transactions' = Append(transactions, tx)
    /\ UNCHANGED <<prices, sortedTx, holdingsMap, invested, cash, holdings, points, pre,
                   pc, returned>>
    /\ UNCHANGED <<analyticsVars, goalVars, csvVars, growthVars, appVars, formVars>>

\* Both functions are called on the collection.
CallSorted ==
  /\ pc = "collecting"
  /\ pc' = "running"
  /\ UNCHANGED <<prices, transactions, sortedTx, holdingsMap, invested, cash, holdings,
                 points, pre, returned>>
  /\ UNCHANGED <<analyticsVars, goalVars, csvVars, growthVars, appVars, formVars>>

\* Both forEach bodies on the next record of the sorted copy.
ReplaySorted ==
  /\ pc = "running"
  /\ Len(sortedTx) < Len(transactions)
  /\ ReplayStep(SortByDate(transactions)[Len(sortedTx) + 1])
  /\ UNCHANGED transactions

\* The forEach loops are over: both functions return.
ReturnSorted ==
  /\ Len(sortedTx) = Len(transactions)
  /\ Return

NextSort ==
  \/ Collect
  \/ CallSorted
  \/ ReplaySorted
  \/ ReturnSorted

SpecSort == InitSort /\ [][NextSort]_vars

\* The two functions on a collection txs given in any order.
calculateHoldings(txs, targets) == HoldingsOf(SortByDate(txs), targets)
calculatePortfolioHistory(txs) ==
  IF Len(txs) = 0 THEN << >> ELSE HistoryOf(SortByDate(txs))

\* The one-to-one maps of 1..n onto itself.
Bijections(n) == {f \in [1..n -> 1..n] : \A i, j \in 1..n : f[i] = f[j] => i = j}

\* txs rearranged by f: position i holds txs[f[i]].
Permuted(txs, f) == [i \in 1..Len(txs) |-> txs[f[i]]]

\* f lists the records of txs by ascending date, records of the same date in
\* the order they have in txs.
AscendingStable(txs, f) ==
  \A i, j \in 1..Len(txs) :
    i < j => \/ txs[f[i]].date < txs[f[j]].date
             \/ txs[f[i]].date = txs[f[j]].date /\ f[i] < f[j]

\* The first Len(txs) points of h are the points of the records of txs, one
\* each, by ascending date and input order within a date: the k-th point has
\* the date of the k-th such record and the invested amount that record leaves.
PointPerTransaction(h, txs) ==
  \E f \in Bijections(Len(txs)) :
    /\ AscendingStable(txs, f)
    /\ \A k \in 1..Len(txs) :
         /\ h[k].date = txs[f[k]].date
         /\ h[k].invested =
              InvestedAfter(IF k = 1 THEN Zero ELSE h[k - 1].invested, txs[f[k]])

\* C13 as claimed: for every collection of n records the timeline has n + 1
\* points, one per record by ascending date and input order within a date, and
\* then one point dated 'Now'.
C13_AlwaysOneMore ==
  pc = "returned" =>
    LET n == Len(transactions)
    IN  /\ Len(ReturnedHistory) = n + 1
        /\ PointPerTransaction(ReturnedHistory, transactions)
        /\ ReturnedHistory[n + 1].date = Now

\* C13 amended: that holds for every collection of n >= 1 records; for the
\* empty collection the timeline is empty (no 'Now' point).
C13_OneMoreUnlessEmpty ==
  pc = "returned" =>
    LET n == Len(transactions)
    IN  IF n = 0 THEN ReturnedHistory = << >>
        ELSE /\ Len(ReturnedHistory) = n + 1
             /\ PointPerTransaction(ReturnedHistory, transactions)
             /\ \A k \in 1..n : ReturnedHistory[k].date # Now
             /\ ReturnedHistory[n + 1].date = Now

\* Three records given out of date order, two of them funding records of the
\* same date and different effect: four points are returned.
C13_Witness ==
  /\ pc = "returned"
  /\ Len(transactions) = 3
  /\ transactions[1].date > transactions[2].date
  /\ transactions[2].date = transactions[3].date
  /\ transactions[2].type = DEPOSIT /\ transactions[3].type = WITHDRAW
  /\ Len(ReturnedHistory) = 4
  /\ ReturnedHistory[1].date = transactions[2].date
  /\ ReturnedHistory[3].date = transactions[1].date

\* C14 as claimed: every rearrangement of the collection yields the same
\* holdings and the same timeline.
C14_AnyPermutation ==
  pc = "returned" =>
    \A f \in Bijections(Len(transactions)) :
      LET txs == Permuted(transactions, f)
      IN  /\ \A targets \in TargetMaps :
               calculateHoldings(txs, targets) = ReturnedHoldings(targets)
          /\ calculatePortfolioHistory(txs) = ReturnedHistory

\* f keeps the records of the same date in the order they have in txs.
KeepsTies(txs, f) ==
  \A i, j \in 1..Len(txs) :
    (i < j /\ txs[f[i]].date = txs[f[j]].date) => f[i] < f[j]

\* C14 amended: every rearrangement that keeps the relative order of the records
\* sharing a date yields the same holdings and the same timeline (records of
\* the same date are replayed in input order, and exchanging two of them can
\* change both outputs).
C14_PermutationKeepingTies ==
  pc = "returned" =>
    \A f \in Bijections(Len(transactions)) :
      KeepsTies(transactions, f) =>
        LET txs == Permuted(transactions, f)
        IN  /\ \A targets \in TargetMaps :
                 calculateHoldings(txs, targets) = ReturnedHoldings(targets)
            /\ calculatePortfolioHistory(txs) = ReturnedHistory

\* A BUY dated after a DEPOSIT and a DIVIDEND but given first: the collection
\* has rearrangements other than itself that keep the ties, and a Holding and
\* four points are returned.
C14_Witness ==
  /\ pc = "returned"
  /\ Len(transactions) = 3
  /\ transactions[1].type = BUY /\ transactions[1].date = 2
  /\ transactions[2].type = DEPOSIT /\ transactions[2].date = 1
  /\ transactions[3].type = DIVIDEND /\ transactions[3].date = 1
  /\ \E f \in Bijections(3) :
       /\ KeepsTies(transactions, f)
       /\ Permuted(transactions, f) # transactions
       /\ calculatePortfolioHistory(Permuted(transactions, f)) = ReturnedHistory
  /\ Len(ReturnedHistory) = 4
  /\ \A targets \in TargetMaps : DOMAIN ReturnedHoldings(targets) = {1}


(***************************************************************************)
(* C15  calculateMonthlyReturns and the wall clock                         *)
(*                                                                         *)
(* A ledger with dates in several months is replayed and the timeline is   *)
(* returned; then calculateMonthlyReturns is called on it, now and after   *)
(* days have passed.                                                       *)
(***************************************************************************)
MaxClockTx == 2
MaxClockDate == 3
MaxClockDay == 5
MaxMonthlyCalls == 2

\* The records of such a ledger: for each date, a BUY and a SELL of 2 shares at
\* each price and a DEPOSIT and a WITHDRAW of each amount.
ClockTxs ==
  {[tx EXCEPT !.date = d] :
     tx \in {t \in TradeTxs(BUY) \cup TradeTxs(SELL) \cup FundingTxs(DEPOSIT)
                   \cup FundingTxs(WITHDRAW) :
               /\ t.date = 1
               /\ t.symbol = (IF t.type \in {DEPOSIT, WITHDRAW} THEN NoSymbol ELSE 1)
               /\ t.shares \in {Undef, Z(2)}
               /\ t.fee = Undef},
     d \in 1..MaxClockDate}

ClockReplay == \E tx \in ClockTxs : Len(sortedTx) < MaxClockTx /\ Replay(tx)

\* A day passes.
Tick ==
  /\ pc = "returned"
  /\ clock < MaxClockDay * Day
  /\ clock' = clock + Day
  /\ UNCHANGED <<prices, transactions, sortedTx, holdingsMap, invested, cash, holdings,
                 points, pre, pc, returned, monthly>>
  /\ UNCHANGED <<goalVars, csvVars, growthVars, appVars, formVars>>

\* Reports: calculateMonthlyReturns(chartData) on the returned timeline.
CallMonthlyReturns ==
  /\ pc = "returned"
  /\ Len(monthly) < MaxMonthlyCalls
  /\ monthly' = Append(monthly,
                       [chartData |-> ReturnedHistory, clock |-> clock,
                        result |-> calculateMonthlyReturns(ReturnedHistory, clock)])
  /\ UNCHANGED <<prices, transactions, sortedTx, holdingsMap, invested, cash, holdings,
                 points, pre, pc, returned, clock>>
  /\ UNCHANGED <<goalVars, csvVars, growthVars, appVars, formVars>>

NextClock ==
  \/ ClockReplay
  \/ Return
  \/ Tick
  \/ CallMonthlyReturns

SpecClock == Init /\ [][NextClock]_vars

\* C15 as claimed: two calls of calculateMonthlyReturns with the same chartData
\* return the same list, whenever they are made.
C15_ClockIndependent ==
  \A i, j \in 1..Len(monthly) :
    monthly[i].chartData = monthly[j].chartData => monthly[i].result = monthly[j].result


(***************************************************************************)
(* C16  Goals                                                              *)
(*                                                                         *)
(* The goal operations of the App as GoalModal issues them.  generateId()  *)
(* is Math.random().toString(36).substr(2, 9): any id, one in use          *)
(* included.                                                               *)
(***************************************************************************)
NumGoalIds == 3
MaxGoals == 3

GoalIds == 1..NumGoalIds
GoalAmounts == {Z(1), Z(2)}
NetWorths == {Zero, Z(2)}

\* Mutant of handleSetNewGoal: the goals in progress are left open.
handleSetNewGoal_LeavesOpen(prev, targetAmount, id, now, totalNetWorth) ==
  Append(prev,
         [id |-> id, targetAmount |-> targetAmount, startDate |-> now,
          endDate |-> NoEndDate, isAchieved |-> FALSE])

\* The list handleSetNewGoal(targetAmount, notes) sets, id being what
\* generateId() returns, now the clock and totalNetWorth the App's net worth.
handleSetNewGoal(prev, targetAmount, id, now, totalNetWorth) ==
  Append([i \in 1..Len(prev) |->
            IF prev[i].endDate = NoEndDate
            THEN [prev[i] EXCEPT !.endDate = now,
                                 !.isAchieved = Le(prev[i].targetAmount, totalNetWorth)]
            ELSE prev[i]],
         [id |-> id, targetAmount |-> targetAmount, startDate |-> now,
          endDate |-> NoEndDate, isAchieved |-> FALSE])

\* prev.map(g => g.id === updatedGoal.id ? updatedGoal : g)
handleEditGoal(prev, updatedGoal) ==
  [i \in 1..Len(prev) |-> IF prev[i].id = updatedGoal.id THEN updatedGoal ELSE prev[i]]

\* prev.filter(g => g.id !== id)
handleDeleteGoal(prev, id) == SelectSeq(prev, LAMBDA g : g.id # id)

\* GoalModal.handleEditClick(goal): the goal is copied into the form.
EditClick ==
  \E i \in 1..Len(goals) :
    /\ editingGoal' = goals[i]
    /\ goalOp' = "editClick"
    /\ UNCHANGED goals

\* GoalModal.resetForm (Cancel Edit, or the modal is opened again).
ResetForm ==
  /\ editingGoal # NoGoal
  /\ editingGoal' = NoGoal
  /\ goalOp' = "reset"
  /\ UNCHANGED goals

\* GoalModal.handleSubmit while a goal is edited: onEditGoal with the copy,
\* its amount and start date taken from the form.
SubmitEdit ==
  \E numAmount \in GoalAmounts, startDate \in Dates :
    /\ editingGoal # NoGoal
    /\ goals' = handleEditGoal(goals, [editingGoal EXCEPT !.targetAmount = numAmount,
                                                          !.startDate = startDate * Day])
    /\ editingGoal' = NoGoal
    /\ goalOp' = "edit"

\* GoalModal.handleSubmit otherwise: onSetGoal(numAmount, notes).
SubmitNew ==
  \E numAmount \in GoalAmounts, id \in GoalIds, totalNetWorth \in NetWorths :
    /\ editingGoal = NoGoal
    /\ Len(goals) < MaxGoals
    /\ goals' = handleSetNewGoal(goals, numAmount, id, clock, totalNetWorth)
    /\ editingGoal' = NoGoal
    /\ goalOp' = "new"

\* GoalModal.confirmDelete after onRequestDelete(goal.id).
ConfirmDelete ==
  \E i \in 1..Len(goals) :
    /\ goals' = handleDeleteGoal(goals, goals[i].id)
    /\ editingGoal' = IF editingGoal.id = goals[i].id THEN NoGoal ELSE editingGoal
    /\ goalOp' = "delete"

NextGoals ==
  \/ EditClick /\ UNCHANGED <<replayVars, analyticsVars, csvVars, growthVars, appVars, formVars>>
  \/ ResetForm /\ UNCHANGED <<replayVars, analyticsVars, csvVars, growthVars, appVars, formVars>>
  \/ SubmitEdit /\ UNCHANGED <<replayVars, analyticsVars, csvVars, growthVars, appVars, formVars>>
  \/ SubmitNew /\ UNCHANGED <<replayVars, analyticsVars, csvVars, growthVars, appVars, formVars>>
  \/ ConfirmDelete /\ UNCHANGED <<replayVars, analyticsVars, csvVars, growthVars, appVars, formVars>>

SpecGoals == Init /\ [][NextGoals]_vars

\* The positions of the goals in progress (no endDate).
ActiveGoals == {i \in 1..Len(goals) : goals[i].endDate = NoEndDate}

\* Right after handleSetNewGoal the one goal in progress is the new one, the
\* last of the list.
NewGoalIsTheActiveOne == goalOp = "new" => ActiveGoals = {Len(goals)}

\* No two goals of the list have the same id.
UniqueGoalIds ==
  \A i, j \in 1..Len(goals) : goals[i].id = goals[j].id => i = j

MaxCsvRows == 2

Missing == "undefined"
NoDate == -1

\* val.trim(): " " is the blank text of the vocabulary.
Trim(val) == IF val = " " THEN "" ELSE val

\* h.toLowerCase() on the headers of the vocabulary.
ToLowerCase(h) ==
  CASE h = "ID" -> "id"
    [] h = "Date" -> "date"
    [] h = "Type" -> "type"
    [] h = "Qty" -> "qty"
    [] h = "Total" -> "total"
    [] OTHER -> h

\* val.toUpperCase() on the cells of the vocabulary.
ToUpperCase(val) ==
  CASE val = "buy" -> "BUY"
    [] val = "abc" -> "ABC"
    [] val = "x1" -> "X1"
    [] OTHER -> val

normalizeHeader(h) ==
  LET lower == ToLowerCase(Trim(h))
  IN  IF lower \in {"qty", "quantity", "units", "count"} THEN "shares"
      ELSE IF lower \in {"cost", "rate", "price per share", "unit price", "price"}
      THEN "price"
      ELSE IF lower \in {"amount", "total", "total value", "value", "total amount",
                         "market value"}
      THEN "total_value_temp"
      ELSE IF lower \in {"ticker", "stock", "asset", "symbol"} THEN "symbol"
      ELSE IF lower \in {"transaction type", "action", "operation", "type"} THEN "type"
      ELSE IF lower \in {"date", "time", "timestamp"} THEN "date"
      ELSE IF lower \in {"fee", "commission", "cost"} THEN "fee"
      ELSE lower

\* parseNumber(val): the digits, dots and minus signs of val as a number, 0 when
\* they are none.
parseNumber(val) ==
  IF val = Missing \/ val = "" THEN Zero
  ELSE CASE val = "2" -> Z(2)
         [] val = "$4" -> Z(4)
         [] OTHER -> Zero

\* new Date().toISOString().split('T')[0]: the day of the clock.
Today(now) == now \div Day

\* parseDate(val): the day val denotes, today when val is empty or no date.
parseDate(val, now) ==
  IF val = "" THEN Today(now)
  ELSE CASE val = "2024-01-02" -> 2
         [] val = "1/3/2024" -> 3
         [] OTHER -> Today(now)

\* The header lines of the files, and the cells a column may hold besides the
\* empty and the blank cell.
HeaderLines ==
  {<<"ID", "Date", "Type", "Qty", "Total">>, <<"time", "action">>, <<"Type", "ID">>}

CellsOf(header) ==
  CASE header = "id" -> {"", "x1"}
    [] header = "date" -> {"", " ", "2024-01-02", "1/3/2024", "abc"}
    [] header = "type" -> {"", " ", "buy", "DEPOSIT"}
    [] header = "shares" -> {"", "2"}
    [] header = "total_value_temp" -> {"", "$4"}
    [] OTHER -> {""}

RECURSIVE LinesOfLength(_, _)
\* The lines of n cells of a file with these headers.
LinesOfLength(headers, n) ==
  IF n = 0 THEN {<< >>}
  ELSE {Append(values, cell) : values \in LinesOfLength(headers, n - 1),
                               cell \in CellsOf(normalizeHeader(headers[n]))}

\* The lines a file with these headers may have: a cell for each of the first
\* columns (a line may be shorter than the header line).
LinesOf(headers) == UNION {LinesOfLength(headers, n) : n \in 0..Len(headers)}

\* The cell that headers.forEach leaves for the property: the trimmed cell of the
\* last column of that header whose cell is neither absent nor empty.
CellFor(headers, values, property) ==
  LET cols == {i \in 1..Len(headers) :
                 /\ normalizeHeader(headers[i]) = property
                 /\ i <= Len(values)
                 /\ values[i] # ""}
  IN  IF cols = {} THEN Missing
      ELSE Trim(values[CHOOSE i \in cols : \A j \in cols : j <= i])

\* JavaScript truthiness of an optional text.
TruthyText(t) == t # Missing /\ t # ""

\* Mutant of CsvValid: only the date is required.
CsvValid_DateOnly(t) == t.date # NoDate

\* The validation: t.date && t.type.
CsvValid(t) == t.date # NoDate /\ TruthyText(t.type)

\* The object t built for a line, after the switch and the post-processing.
CsvObject(headers, values, now) ==
  LET cell(property) == CellFor(headers, values, property)
      number(property) == IF cell(property) = Missing THEN Undef
                          ELSE parseNumber(cell(property))
      type == IF cell("type") = Missing THEN Missing ELSE ToUpperCase(cell("type"))
      shares == number("shares")
      price == number("price")
      totalValueTemp == OrZero(number("total_value_temp"))
      solved == IF type \in {"BUY", "SELL"} /\ ~Truthy(price)
                THEN IF Gt(totalValueTemp, Zero) /\ shares # Undef /\ Gt(shares, Zero)
                     THEN Div(totalValueTemp, shares) ELSE price
                ELSE IF type \in {"DEPOSIT", "WITHDRAW", "DIVIDEND"} /\ ~Truthy(price)
                THEN IF Gt(totalValueTemp, Zero) THEN totalValueTemp ELSE price
                ELSE price
  IN  [id |-> cell("id"),
       date |-> IF cell("date") = Missing THEN NoDate ELSE parseDate(cell("date"), now),
       type |-> type,
       symbol |-> IF cell("symbol") = Missing THEN Missing
                  ELSE ToUpperCase(cell("symbol")),
       shares |-> shares,
       price |-> solved,
       fee |-> number("fee")]

\* isNaN(x) on an optional number: undefined is not a number either.
NotANumber(x) == x = Undef \/ IsNaN(x)

\* The Transaction pushed for a valid t; id is what generateId() returns.
CsvTransaction(t, id) ==
  [t EXCEPT !.id = IF TruthyText(t.id) THEN t.id ELSE id,
            !.shares = IF NotANumber(t.shares) THEN Zero ELSE t.shares,
            !.price = IF NotANumber(t.price) THEN Zero ELSE t.price,
            !.fee = IF NotANumber(t.fee) THEN Zero ELSE t.fee]

GeneratedIds == {"g1", "g2"}

\* A file is chosen: csvToTransactions reads its header line.
OpenCsv ==
  /\ csvHeaders = << >>
  /\ csvHeaders' \in HeaderLines
  /\ UNCHANGED csvRows
  /\ UNCHANGED <<replayVars, analyticsVars, goalVars, growthVars, appVars, formVars>>

\* One iteration of the for loop, on the next line of the file.
ParseLine ==
  \E values \in LinesOf(csvHeaders), id \in GeneratedIds :
    LET t == CsvObject(csvHeaders, values, clock)
    IN  /\ csvHeaders # << >>
        /\ Len(csvRows) < MaxCsvRows
        /\ csvRows' = Append(csvRows,
                             [values |-> values,
                              emitted |-> CsvValid(t),
                              transaction |-> IF CsvValid(t) THEN CsvTransaction(t, id)
                                              ELSE t])
        /\ UNCHANGED csvHeaders
        /\ UNCHANGED <<replayVars, analyticsVars, goalVars, growthVars, appVars, formVars>>

NextCsv ==
  \/ OpenCsv
  \/ ParseLine

SpecCsv == Init /\ [][NextCsv]_vars

\* What csvToTransactions returns for the lines parsed so far.
csvToTransactions ==
  LET emitted == SelectSeq(csvRows, LAMBDA r : r.emitted)
  IN  [i \in 1..Len(emitted) |-> emitted[i].transaction]

\* The cell of a line under the header of a property, Missing when the line
\* has no such cell.
RawCell(values, property) ==
  LET cols == {i \in 1..Len(csvHeaders) :
                 normalizeHeader(csvHeaders[i]) = property /\ i <= Len(values)}
  IN  IF cols = {} THEN Missing ELSE values[CHOOSE i \in cols : TRUE]

\* The line has no value for the property: no cell, an empty or a blank one.
Lacks(values, property) == RawCell(values, property) \in {Missing, "", " "}

\* Every emitted Transaction has a date, a non-empty type and an id.
CsvEmittedComplete ==
  \A i \in 1..Len(csvToTransactions) :
    LET t == csvToTransactions[i]
    IN  /\ t.date # NoDate
        /\ t.type \notin {Missing, ""}
        /\ t.id \notin {Missing, ""}

\* C17 as claimed: every emitted Transaction has a date, a non-empty type and an
\* id, and a line without a date value or without a type value is dropped.
C17_DroppedWithoutDateOrType ==
  /\ CsvEmittedComplete
  /\ \A i \in 1..Len(csvRows) :
       (Lacks(csvRows[i].values, "date") \/ Lacks(csvRows[i].values, "type"))
         => ~csvRows[i].emitted

\* C17 amended: every emitted Transaction has a date, a non-empty type and an
\* id.  A line is dropped when it has no type value, or when its date cell is
\* absent or empty.  A line with a type whose date cell is blank (white space
\* only) or is not a date is emitted, dated today.
C17_DroppedWithoutTypeOrDateCell ==
  /\ CsvEmittedComplete
  /\ \A i \in 1..Len(csvRows) :
       LET values == csvRows[i].values
       IN  /\ Lacks(values, "type") => ~csvRows[i].emitted
           /\ RawCell(values, "date") \in {Missing, ""} => ~csvRows[i].emitted
           /\ (~Lacks(values, "type") /\ RawCell(values, "date") \in {" ", "abc"})
                => /\ csvRows[i].emitted
                   /\ csvRows[i].transaction.date = Today(clock)

\* Two lines of a file with ID, Date, Type, Qty and Total columns: one with a
\* date and no type, dropped; one with date, type, quantity and total and no
\* id, emitted with a generated id and the price solved from the total.
C17_Witness ==
  /\ Len(csvHeaders) = 5
  /\ Len(csvRows) = 2
  /\ ~Lacks(csvRows[1].values, "date") /\ Lacks(csvRows[1].values, "type")
  /\ ~csvRows[1].emitted
  /\ csvRows[2].emitted
  /\ Len(csvToTransactions) = 1
  /\ csvToTransactions[1].id \in GeneratedIds
  /\ csvToTransactions[1].date = 2
  /\ csvToTransactions[1].type = "BUY"
  /\ csvToTransactions[1].price = Z(2)


(***************************************************************************)
(* C18  What a SELL does to a Holding                                      *)
(***************************************************************************)
\* The SELL just replayed, on a Holding with shares: avgCost is unchanged and
\* realizedPL grows by (price * shares - fee) - avgCost * shares.
SellBooksGain ==
  LET sold == OrZero(LastTx.shares)
      proceeds == Sub(Mul(OrZero(LastTx.price), sold), OrZero(LastTx.fee))
  IN  /\ After.avgCost = Before.avgCost
      /\ After.realizedPL =
           Add(Before.realizedPL, Sub(proceeds, Mul(Before.avgCost, sold)))

\* The SELL just replayed takes the shares sold from shares and their cost at
\* avgCost from totalCost.
SellSubtracts ==
  LET sold == OrZero(LastTx.shares)
  IN  /\ After.shares = Sub(Before.shares, sold)
      /\ After.totalCost = Sub(Before.totalCost, Mul(Before.avgCost, sold))

\* C18 as claimed, for the SELLs of a positive quantity on a Holding with
\* shares: avgCost is unchanged, realizedPL grows by the proceeds less the cost
\* at avgCost, the shares sold are subtracted from shares and their cost from
\* totalCost, and after a partial sell totalCost = shares * avgCost.
C18_SellSubtractsAlways ==
  (LastIs(SELL) /\ PositiveQuantities /\ Gt(Before.shares, Zero)) =>
    /\ SellBooksGain
    /\ SellSubtracts
    /\ Lt(OrZero(LastTx.shares), Before.shares) =>
         After.totalCost = Mul(After.shares, After.avgCost)

\* C18 amended: every SELL leaves avgCost unchanged and adds the proceeds less
\* the cost at avgCost to realizedPL.  When the shares left are 0.000001 or more
\* it subtracts the shares sold from shares and their cost from totalCost, and
\* then (in a ledger of positive quantities) totalCost = shares * avgCost.  When
\* fewer are left (the whole position or more is sold) shares and totalCost are
\* set to 0.
C18_SellSubtractsOrClamps ==
  LastIs(SELL) =>
    /\ SellBooksGain
    /\ IF Lt(Sub(Before.shares, OrZero(LastTx.shares)), Epsilon)
       THEN After.shares = Zero /\ After.totalCost = Zero
       ELSE /\ SellSubtracts
            /\ PositiveQuantities => After.totalCost = Mul(After.shares, After.avgCost)

\* A partial SELL with a fee, at a price other than avgCost: shares are left
\* and a gain or loss is booked.
C18_Witness ==
  /\ LastIs(SELL)
  /\ PositiveQuantities
  /\ Lt(OrZero(LastTx.shares), Before.shares)
  /\ Truthy(LastTx.fee)
  /\ OrZero(LastTx.price) # Before.avgCost
  /\ After.realizedPL # Before.realizedPL
  /\ Gt(After.shares, Zero)
  /\ Gt(After.totalCost, Zero)

(***************************************************************************)
(* C19  currentPrice of a returned Holding                                 *)
(***************************************************************************)
RECURSIVE LastTradePrice(_, _, _)
\* The per-share price of the last BUY or SELL of symbol s among the first n of
\* txs, 0 when there is none.
LastTradePrice(txs, n, s) ==
  IF n = 0 THEN Zero
  ELSE IF txs[n].symbol = s /\ txs[n].type \in {BUY, SELL}
       THEN OrZero(txs[n].price)
       ELSE LastTradePrice(txs, n - 1, s)

\* C19 as claimed: a returned Holding has the live price of its symbol as
\* currentPrice when the price map supplies one, else the per-share price of the
\* symbol's last BUY or SELL (0 when it has none), and marketValue = shares *
\* currentPrice.
C19_CurrentPrice ==
  \A targets \in TargetMaps :
    \A s \in DOMAIN ReturnedHoldings(targets) :
      LET h == ReturnedHoldings(targets)[s]
      IN  /\ h.currentPrice = IF Truthy(prices[s]) THEN prices[s]
                              ELSE LastTradePrice(sortedTx, Replayed, s)
          /\ h.marketValue = Mul(h.shares, h.currentPrice)

(***************************************************************************)
(* C20  The trailing 'Now' point                                           *)
(***************************************************************************)
\* The symbols with a live price in the price map.
LivePriced == {s \in DOMAIN holdings : Truthy(prices[s])}

TrackedIn(hs, s) ==
  IF s \in DOMAIN hs THEN hs[s] ELSE [shares |-> Zero, lastPrice |-> Zero]

\* const ratio = shares || 1 of the transaction just replayed.
SplitRatio == IF Truthy(LastTx.shares) THEN LastTx.shares ELSE Z(1)

\* C21: a SPLIT with a symbol and a ratio > 0 multiplies the symbol's shares by
\* the ratio and divides its lastPrice by it, and its point has the value and
\* the invested amount of the point before it (0 and 0 when it is the first).
C21_SplitContinuous ==
  (LastIs(SPLIT) /\ Gt(SplitRatio, Zero)) =>
    LET old == TrackedIn(pre.holdings, LastTx.symbol)
        new == holdings[LastTx.symbol]
        n == Len(points)
        point == points[n]
    IN  /\ new.shares = Mul(old.shares, SplitRatio)
        /\ new.lastPrice = Div(old.lastPrice, SplitRatio)
        /\ IF n >= 2
           THEN point.value = points[n - 1].value
                /\ point.invested = points[n - 1].invested
           ELSE point.value = Zero /\ point.invested = Zero

\* A 2-for-1 SPLIT of a symbol bought with deposited cash: shares double,
\* lastPrice halves and the point keeps a value above 0.
C21_Witness ==
  /\ Replayed = 3
  /\ sortedTx[1].type = DEPOSIT
  /\ sortedTx[2].type = BUY
  /\ LastIs(SPLIT)
  /\ sortedTx[2].symbol = LastTx.symbol
  /\ SplitRatio = Z(2)
  /\ Gt(pre.holdings[LastTx.symbol].shares, Zero)
  /\ holdings[LastTx.symbol].shares # pre.holdings[LastTx.symbol].shares
  /\ holdings[LastTx.symbol].lastPrice # pre.holdings[LastTx.symbol].lastPrice
  /\ Gt(points[3].value, Zero)
  /\ points[3].value = points[2].value

(***************************************************************************)
(* C22  A ledger of DEPOSITs and WITHDRAWs                                 *)
(***************************************************************************)
RECURSIVE NetFunding(_, _)
\* The deposits less the withdrawals among the first n of txs.
NetFunding(txs, n) ==
  IF n = 0 THEN Zero
  ELSE LET rest == NetFunding(txs, n - 1)
       IN  IF txs[n].type = DEPOSIT THEN Add(rest, OrZero(txs[n].price))
           ELSE IF txs[n].type = WITHDRAW THEN Sub(rest, OrZero(txs[n].price))
           ELSE rest

OnlyFunding == \A i \in 1..Replayed : sortedTx[i].type \in {DEPOSIT, WITHDRAW}

\* C22: for a ledger of DEPOSITs and WITHDRAWs only, every point returned (the
\* 'Now' point too) has value = invested = the deposits less the withdrawals
\* replayed up to that point.
C22_FundingOnly ==
  OnlyFunding =>
    \A i \in 1..Len(ReturnedHistory) :
      LET point == ReturnedHistory[i]
          net == NetFunding(sortedTx, IF i > Replayed THEN Replayed ELSE i)
      IN  point.value = net /\ point.invested = net

\* Two DEPOSITs and a WITHDRAW: the third point is worth less than the second.
C22_Witness ==
  /\ Replayed = 3
  /\ OnlyFunding
  /\ sortedTx[1].type = DEPOSIT
  /\ sortedTx[2].type = DEPOSIT
  /\ sortedTx[3].type = WITHDRAW
  /\ Len(ReturnedHistory) = 4
  /\ Lt(ReturnedHistory[3].value, ReturnedHistory[2].value)
  /\ Gt(ReturnedHistory[4].value, Zero)


(***************************************************************************)
(* C23  The monthly returns, month by month                                *)
(***************************************************************************)
\* The chronologically latest point of chartData before time limit (among
\* points of one time, the one the stable sort leaves last), 0 if none.
LatestBefore(chartData, now, limit) ==
  LET early == {i \in 1..Len(chartData) : GetDate(chartData[i].date, now) < limit}
  IN  IF early = {} THEN 0
      ELSE CHOOSE i \in early :
             \A j \in early :
               \/ GetDate(chartData[j].date, now) < GetDate(chartData[i].date, now)
               \/ GetDate(chartData[j].date, now) = GetDate(chartData[i].date, now)
                  /\ j <= i

\* The months in which the points of a timeline are dated.
MonthsOf(chartData, now) ==
  {GetYearMonth(GetDate(chartData[i].date, now)) : i \in 1..Len(chartData)}

\* The months of the first and of the last point of a timeline.
FirstMonth(chartData, now) ==
  CHOOSE m \in MonthsOf(chartData, now) : \A k \in MonthsOf(chartData, now) : m <= k

LastMonth(chartData, now) ==
  CHOOSE m \in MonthsOf(chartData, now) : \A k \in MonthsOf(chartData, now) : k <= m

\* The chronologically last point of a timeline.
LastPoint(chartData, now) ==
  chartData[LatestBefore(chartData, now, MonthStart(LastMonth(chartData, now) + 1))]

\* The snapshot of month m: value and invested of the latest point dated in or
\* before m, 0 / 0 before the first month.
SnapshotOf(chartData, now, m) ==
  LET i == LatestBefore(chartData, now, MonthStart(m + 1))
  IN  IF i = 0 THEN [value |-> Zero, invested |-> Zero]
      ELSE [value |-> chartData[i].value, invested |-> chartData[i].invested]

\* The figures of month m.
NetFlowOf(chartData, now, m) ==
  Sub(SnapshotOf(chartData, now, m).invested, SnapshotOf(chartData, now, m - 1).invested)

PnlOf(chartData, now, m) ==
  Sub(Sub(SnapshotOf(chartData, now, m).value, SnapshotOf(chartData, now, m - 1).value),
      NetFlowOf(chartData, now, m))

DenominatorOf(chartData, now, m) ==
  Add(SnapshotOf(chartData, now, m - 1).value, Div(NetFlowOf(chartData, now, m), Z(2)))

ReturnOf(chartData, now, m) ==
  IF DenominatorOf(chartData, now, m) = Zero THEN Zero
  ELSE Mul(Div(PnlOf(chartData, now, m), DenominatorOf(chartData, now, m)), Z(100))

\* The months of a timeline that get an entry.
EmittedMonths(chartData, now) ==
  {m \in FirstMonth(chartData, now)..LastMonth(chartData, now) :
     ~(DenominatorOf(chartData, now, m) = Zero /\ PnlOf(chartData, now, m) = Zero)}

RECURSIVE SumPnl(_, _)
\* The sum of pnl over the first n entries.
SumPnl(entries, n) ==
  IF n = 0 THEN Zero ELSE Add(SumPnl(entries, n - 1), entries[n].pnl)

\* C30: for every call of calculateMonthlyReturns on a non-empty timeline, the
\* pnl of the entries returned add up to value - invested of the
\* chronologically last point.
C30_PnlTelescopes ==
  \A c \in 1..Len(monthly) :
    LET chartData == monthly[c].chartData
        now == monthly[c].clock
        result == monthly[c].result
        last == LastPoint(chartData, now)
    IN  chartData # << >> => SumPnl(result, Len(result)) = Sub(last.value, last.invested)

\* A call that skips a month and returns two entries with pnl of opposite sign
\* whose sum, the total gain, is not 0.
C30_Witness ==
  \E c \in 1..Len(monthly) :
    LET chartData == monthly[c].chartData
        now == monthly[c].clock
        result == monthly[c].result
        last == LastPoint(chartData, now)
    IN  /\ chartData # << >>
        /\ Len(result) = 2
        /\ LastMonth(chartData, now) - FirstMonth(chartData, now) + 1 > Len(result)
        /\ result[1].pnl # Zero
        /\ result[2].pnl # Zero
        /\ Sub(last.value, last.invested) # Zero
        /\ SumPnl(result, 2) = Sub(last.value, last.invested)


(***************************************************************************)
(* C27  The 'Now' point and the App's total net worth                      *)
(***************************************************************************)
\* t.price! * t.shares!: an absent operand makes the product NaN.
Present(x) == IF x = Undef THEN NaN ELSE x

RECURSIVE cashBalance(_, _)
\* The App's cashBalance over the first n of txs.
cashBalance(txs, n) ==
  IF n = 0 THEN Zero
  ELSE LET t == txs[n]
           balance == cashBalance(txs, n - 1)
           total == Mul(Present(t.price), Present(t.shares))
       IN  IF t.type = DEPOSIT THEN Add(balance, OrZero(t.price))
           ELSE IF t.type = WITHDRAW THEN Sub(balance, OrZero(t.price))
           ELSE IF t.type = BUY THEN Sub(balance, Add(total, OrZero(t.fee)))
           ELSE IF t.type = SELL THEN Add(balance, Sub(total, OrZero(t.fee)))
           ELSE IF t.type = DIVIDEND THEN Add(balance, OrZero(t.price))
           ELSE balance

\* The App's portfolioValue: the sum of marketValue over the Holdings returned.
portfolioValue(hs) == SumOver([s \in DOMAIN hs |-> hs[s].marketValue], DOMAIN hs)

\* The App's totalNetWorth for the ledger replayed so far.
totalNetWorth(targets) ==
  Add(portfolioValue(ReturnedHoldings(targets)), cashBalance(transactions, Len(transactions)))

\* Every BUY, SELL, DIVIDEND and SPLIT of the ledger names a symbol.
AllWithSymbol ==
  \A i \in 1..Replayed :
    sortedTx[i].type \in {BUY, SELL, DIVIDEND, SPLIT} => HasSymbol(sortedTx[i])

\* C27 as claimed, for the ledgers of one record or more whose trades name a
\* symbol and have positive quantities: the value of the 'Now' point that
\* calculatePortfolioHistory returns is the App's totalNetWorth for the same
\* ledger and prices.
C27_NowIsNetWorth ==
  (Replayed >= 1 /\ AllWithSymbol /\ PositiveQuantities) =>
    \A targets \in TargetMaps :
      ReturnedHistory[Len(ReturnedHistory)].value = totalNetWorth(targets)


(***************************************************************************)
(* C24  The CAGR of the growth report                                      *)
(*                                                                         *)
(* GrowthView renders for the ledger, a current portfolio value and the    *)
(* clock.  A ledger of deposits and withdrawals is built, time passes      *)
(* (less than a year, or four years), and the view is rendered.            *)
(***************************************************************************)
MaxGrowthTx == 2

\* The days that may pass before the view is rendered: under a year, and four
\* years of 365.25 days.
GrowthDays == {364, 1460}

RECURSIVE netFundingUSD(_, _)
\* calculateFundingStats(transactions).netFundingUSD over the first n of txs:
\* deposits add, the other funding records (withdrawals) subtract.
netFundingUSD(txs, n) ==
  IF n = 0 THEN Zero
  ELSE LET rest == netFundingUSD(txs, n - 1)
           amount == OrZero(txs[n].price)
       IN  IF txs[n].type = DEPOSIT THEN Add(rest, amount)
           ELSE IF txs[n].type = WITHDRAW THEN Sub(rest, amount)
           ELSE rest

\* Mutant of totalROI: the ratio without the guard on netFundingUSD.
totalROI_Unguarded(currentPortfolioValue, netFunding) ==
  Mul(Div(Sub(currentPortfolioValue, netFunding), netFunding), Z(100))

\* totalROI of GrowthView.
totalROI(currentPortfolioValue, netFunding) ==
  IF Gt(netFunding, Zero)
  THEN Mul(Div(Sub(currentPortfolioValue, netFunding), netFunding), Z(100))
  ELSE Zero

\* daysInMarket: Math.ceil(Math.abs(now - firstTxDate) / (a day)), 0 for an
\* empty ledger.
daysInMarket(txs, now) ==
  IF Len(txs) = 0 THEN 0
  ELSE (Abs(now - GetTime(SortByDate(txs)[1].date)) + Day - 1) \div Day

\* yearsInMarket = daysInMarket / 365.25.
yearsInMarket(txs, now) == Q(4 * daysInMarket(txs, now), 1461)

RECURSIVE IntPower(_, _)
\* x multiplied k times.
IntPower(x, k) == IF k = 0 THEN Z(1) ELSE Mul(x, IntPower(x, k - 1))

\* The roots that Math.pow returns exactly in this model.
Roots == {Q(1, 2), Z(1), Z(2)}

\* Math.pow(x, e) for a finite x and an exponent e = 1/k, k = 1, 2, ...: x for
\* k = 1, NaN for x < 0, 0 for x = 0, else the root of x among Roots.
Pow(x, e) ==
  IF IsNaN(x) THEN NaN
  ELSE IF e = Z(1) THEN x
  ELSE IF Lt(x, Zero) THEN NaN
  ELSE IF x = Zero THEN Zero
  ELSE CHOOSE r \in Roots : e.n = 1 /\ IntPower(r, e.d) = x

\* cagr of GrowthView.
Cagr(currentPortfolioValue, netFunding, years) ==
  IF Lt(years, Z(1)) \/ Le(netFunding, Zero)
  THEN totalROI(currentPortfolioValue, netFunding)
  ELSE Mul(Sub(Pow(Div(currentPortfolioValue, netFunding), Div(Z(1), years)), Z(1)),
           Z(100))

\* The deposits and withdrawals of the ledger.
GrowthTxs == FundingTxs(DEPOSIT) \cup FundingTxs(WITHDRAW)

\* The current portfolio values the view is rendered with: a loss of
\* everything and more, and the net funding as it is, grown 16 times or shrunk
\* to a 16th.
GrowthValues(netFunding) ==
  {Z(-1), Zero} \cup {Mul(netFunding, c) : c \in {Q(1, 16), Z(1), Z(16)}}

GrowthReplay == \E tx \in GrowthTxs : Len(sortedTx) < MaxGrowthTx /\ Replay(tx)

\* Time passes, once.
TimePasses ==
  /\ clock = ClockStart
  /\ \E days \in GrowthDays : clock' = clock + days * Day
  /\ UNCHANGED <<replayVars, monthly, goalVars, csvVars, growthVars, appVars, formVars>>

\* GrowthView renders.
RenderGrowth ==
  /\ \E currentPortfolioValue \in
          GrowthValues(netFundingUSD(transactions, Len(transactions))) :
       growthView' =
         [rendered |-> TRUE,
          netFundingUSD |-> netFundingUSD(transactions, Len(transactions)),
          currentPortfolioValue |-> currentPortfolioValue,
          yearsInMarket |-> yearsInMarket(transactions, clock),
          cagr |-> Cagr(currentPortfolioValue,
                        netFundingUSD(transactions, Len(transactions)),
                        yearsInMarket(transactions, clock))]
  /\ UNCHANGED <<replayVars, analyticsVars, goalVars, csvVars, appVars, formVars>>

NextGrowth ==
  \/ GrowthReplay
  \/ TimePasses
  \/ RenderGrowth

SpecGrowth == Init /\ [][NextGrowth]_vars

\* The CAGR formula on what was rendered.
CompoundRate ==
  Mul(Sub(Pow(Div(growthView.currentPortfolioValue, growthView.netFundingUSD),
              Div(Z(1), growthView.yearsInMarket)), Z(1)), Z(100))

\* The simple total ROI on what was rendered.
SimpleROI ==
  Mul(Div(Sub(growthView.currentPortfolioValue, growthView.netFundingUSD),
          growthView.netFundingUSD), Z(100))

\* C24 as claimed: the CAGR rendered is (currentValue - netFunding) /
\* netFunding * 100 when years-in-market < 1 or net funding <= 0, else
\* ((currentValue / netFunding)^(1 / years) - 1) * 100.
C24_CagrOrRatio ==
  growthView.rendered =>
    growthView.cagr =
      IF Lt(growthView.yearsInMarket, Z(1)) \/ Le(growthView.netFundingUSD, Zero)
      THEN SimpleROI ELSE CompoundRate

\* C24 amended: the CAGR rendered is 0 when net funding <= 0; with net funding
\* > 0 it is (currentValue - netFunding) / netFunding * 100 when
\* years-in-market < 1, else ((currentValue / netFunding)^(1 / years) - 1) * 100.
C24_CagrOrGuardedRatio ==
  growthView.rendered =>
    growthView.cagr =
      IF Le(growthView.netFundingUSD, Zero) THEN Zero
      ELSE IF Lt(growthView.yearsInMarket, Z(1)) THEN SimpleROI
      ELSE CompoundRate

\* After four years a portfolio worth 16 times its net funding is rendered with
\* a CAGR of 100.
C24_Witness ==
  /\ growthView.rendered
  /\ Gt(growthView.netFundingUSD, Zero)
  /\ growthView.yearsInMarket = Z(4)
  /\ growthView.currentPortfolioValue = Mul(growthView.netFundingUSD, Z(16))
  /\ growthView.cagr = Z(100)


(***************************************************************************)
(* C26, C29  Portfolios and their stored ledgers                           *)
(*                                                                         *)
(* The App as React runs it.  A handler sets state; the App then renders,  *)
(* and the effects of the render whose dependencies changed run in the     *)
(* order they are declared, each with the values the render closed over    *)
(* (rendered).  The switch effect requests an animation frame for          *)
(* loadData; the frame runs later.  Handlers run on a rendered App whose   *)
(* effects have run.  localStorage holds the keys 'portfolios',            *)
(* 'activePortfolioId' and one 'transactions_<id>' per id that has one.    *)
(* generateId() returns an id that is not in use.                          *)
(***************************************************************************)
NumPortfolioIds == 2
NumAppTxIds == 2
MaxAppTx == 1
MaxFrames == 1

PortfolioIds == 1..NumPortfolioIds
PortfolioNames == {1, 2}

\* The ids of a list of portfolios or transactions.
IdsOf(list) == {list[i].id : i \in 1..Len(list)}

\* The records the user saves: deposits of 1, told apart by their id.
AppTxs ==
  {[id |-> i, date |-> 1, type |-> DEPOSIT, symbol |-> NoSymbol, shares |-> Undef,
    price |-> Z(1), fee |-> Undef] : i \in 1..NumAppTxIds}

\* safeJSONParse('transactions_<id>', []).
StoredTransactions(storage, id) ==
  IF id \in DOMAIN storage.transactions THEN storage.transactions[id] ELSE << >>

\* localStorage.setItem('transactions_<id>', JSON.stringify(txs)).
SetTransactions(storage, id, txs) ==
  [storage EXCEPT !.transactions =
     [k \in DOMAIN storage.transactions \cup {id} |->
        IF k = id THEN txs ELSE storage.transactions[k]]]

\* localStorage.removeItem('transactions_<id>').
RemoveTransactions(storage, id) ==
  [storage EXCEPT !.transactions =
     [k \in DOMAIN storage.transactions \ {id} |-> storage.transactions[k]]]

\* The App has rendered its state and the effects of the render have run.
Idle ==
  /\ effects = << >>
  /\ rendered = RenderOf(portfolios, activePortfolioId, transactions, isDataLoaded)

\* The effects of a render after the render prev: those with a changed
\* dependency, in the order they are declared.
EffectsAfter(prev, next) ==
  SelectSeq(AllEffects,
            LAMBDA e :
              \/ e = "persistPortfolios" /\ next.portfolios # prev.portfolios
              \/ e \in {"persistActivePortfolioId", "switchPortfolio"}
                 /\ next.activePortfolioId # prev.activePortfolioId
              \/ e = "persistTransactions"
                 /\ \/ next.transactions # prev.transactions
                    \/ next.activePortfolioId # prev.activePortfolioId
                    \/ next.isDataLoaded # prev.isDataLoaded)

\* The App renders its new state.
Render ==
  /\ effects = << >>
  /\ rendered # RenderOf(portfolios, activePortfolioId, transactions, isDataLoaded)
  /\ rendered' = RenderOf(portfolios, activePortfolioId, transactions, isDataLoaded)
  /\ effects' = EffectsAfter(rendered, rendered')
  /\ UNCHANGED <<portfolios, activePortfolioId, transactions, isDataLoaded, isFirstMount,
                 localStorage, frames, switched>>

\* useEffect(() => localStorage.setItem('portfolios', ...), [portfolios]).
PersistPortfolios ==
  /\ effects # << >> /\ Head(effects) = "persistPortfolios"
  /\ effects' = Tail(effects)
  /\ localStorage' = [localStorage EXCEPT !.portfolios = rendered.portfolios,
                                          !.items = @ \cup {"portfolios"}]
  /\ UNCHANGED <<portfolios, activePortfolioId, transactions, isDataLoaded, isFirstMount,
                 rendered, frames, switched>>

\* useEffect(() => localStorage.setItem('activePortfolioId', ...),
\* [activePortfolioId]).
PersistActivePortfolioId ==
  /\ effects # << >> /\ Head(effects) = "persistActivePortfolioId"
  /\ effects' = Tail(effects)
  /\ localStorage' = [localStorage EXCEPT !.activePortfolioId = rendered.activePortfolioId,
                                          !.items = @ \cup {"activePortfolioId"}]
  /\ UNCHANGED <<portfolios, activePortfolioId, transactions, isDataLoaded, isFirstMount,
                 rendered, frames, switched>>

\* The switch effect: nothing on the first mount; else isDataLoaded is set to
\* false and a frame is requested for loadData, which closes over the
\* activePortfolioId of the render.
SwitchPortfolio ==
  /\ effects # << >> /\ Head(effects) = "switchPortfolio"
  /\ effects' = Tail(effects)
  /\ IF isFirstMount
     THEN /\ isFirstMount' = FALSE
          /\ UNCHANGED <<isDataLoaded, frames>>
     ELSE /\ isDataLoaded' = FALSE
          /\ frames' = Append(frames, rendered.activePortfolioId)
          /\ UNCHANGED isFirstMount
  /\ UNCHANGED <<portfolios, activePortfolioId, transactions, localStorage, rendered,
                 switched>>

\* useEffect(() => { if (isDataLoaded) localStorage.setItem(
\* `transactions_${activePortfolioId}`, ...) }, [transactions,
\* activePortfolioId, isDataLoaded]).
PersistTransactions ==
  /\ effects # << >> /\ Head(effects) = "persistTransactions"
  /\ effects' = Tail(effects)
  /\ localStorage' = IF rendered.isDataLoaded
                     THEN SetTransactions(localStorage, rendered.activePortfolioId,
                                          rendered.transactions)
                     ELSE localStorage
  /\ UNCHANGED <<portfolios, activePortfolioId, transactions, isDataLoaded, isFirstMount,
                 rendered, frames, switched>>

\* The animation frame: loadData.
LoadData ==
  /\ effects = << >>
  /\ frames # << >>
  /\ frames' = Tail(frames)
  /\ transactions' = StoredTransactions(localStorage, Head(frames))
  /\ isDataLoaded' = TRUE
  /\ UNCHANGED <<portfolios, activePortfolioId, isFirstMount, localStorage, rendered,
                 effects, switched>>

\* What a switch of portfolio to id `to` leaves for later comparison: the
\* ledgers stored at the switch.
SwitchTo(to, storage) ==
  [to |-> to, from |-> activePortfolioId, transactions |-> storage.transactions]

\* The user picks another portfolio: setActivePortfolioId(id).
SelectPortfolio ==
  /\ Idle
  /\ Len(frames) < MaxFrames
  /\ \E id \in IdsOf(portfolios) \ {activePortfolioId} :
       /\ activePortfolioId' = id
       /\ switched' = SwitchTo(id, localStorage)
  /\ UNCHANGED <<portfolios, transactions, isDataLoaded, isFirstMount, localStorage,
                 rendered, effects, frames>>

\* handleCreatePortfolio(name).
CreatePortfolio ==
  /\ Idle
  /\ Len(frames) < MaxFrames
  /\ \E newId \in PortfolioIds \ IdsOf(portfolios), name \in PortfolioNames :
       /\ portfolios' = Append(portfolios, [id |-> newId, name |-> name])
       /\ activePortfolioId' = newId
       /\ switched' = SwitchTo(newId, localStorage)
  /\ UNCHANGED <<transactions, isDataLoaded, isFirstMount, localStorage, rendered,
                 effects, frames>>

\* handleRenamePortfolio(id, newName).
RenamePortfolio ==
  /\ Idle
  /\ \E i \in 1..Len(portfolios), newName \in PortfolioNames :
       /\ portfolios[i].name # newName
       /\ portfolios' = [portfolios EXCEPT ![i].name = newName]
  /\ UNCHANGED <<activePortfolioId, transactions, isDataLoaded, isFirstMount,
                 localStorage, rendered, effects, frames, switched>>

\* handleDeletePortfolio(id), confirmed: refused when one portfolio is left.
DeletePortfolio ==
  /\ Idle
  /\ Len(frames) < MaxFrames
  /\ Len(portfolios) > 1
  /\ \E id \in IdsOf(portfolios) :
       LET newPortfolios == SelectSeq(portfolios, LAMBDA q : q.id # id)
       IN  /\ localStorage' = RemoveTransactions(localStorage, id)
           /\ portfolios' = newPortfolios
           /\ IF activePortfolioId = id
              THEN /\ activePortfolioId' = newPortfolios[1].id
                   /\ switched' = SwitchTo(newPortfolios[1].id,
                                           RemoveTransactions(localStorage, id))
              ELSE UNCHANGED <<activePortfolioId, switched>>
  /\ UNCHANGED <<transactions, isDataLoaded, isFirstMount, rendered, effects, frames>>

\* handleSaveTransaction(tx) of a new record.
SaveTransaction ==
  /\ Idle
  /\ Len(transactions) < MaxAppTx
  /\ \E tx \in AppTxs :
       /\ tx.id \notin IdsOf(transactions)
       /\ transactions' = Append(transactions, tx)
  /\ switched' = NoSwitch
  /\ UNCHANGED <<portfolios, activePortfolioId, isDataLoaded, isFirstMount, localStorage,
                 rendered, effects, frames>>

\* The page is loaded again: the useState initializers read localStorage.
Relaunch ==
  /\ Idle
  /\ frames = << >>
  /\ LET saved == localStorage.activePortfolioId
         safePortfolios == IF "portfolios" \in localStorage.items
                           THEN localStorage.portfolios ELSE << >>
         id == IF "activePortfolioId" \in localStorage.items
                  /\ saved \in IdsOf(safePortfolios) THEN saved
               ELSE IF Len(safePortfolios) > 0 THEN safePortfolios[1].id
               ELSE DefaultId
     IN  /\ portfolios' = IF "portfolios" \in localStorage.items
                          THEN localStorage.portfolios
                          ELSE <<[id |-> 1, name |-> 1]>>
         /\ activePortfolioId' = id
         /\ transactions' = StoredTransactions(localStorage, id)
         /\ rendered' = RenderOf(portfolios', id,
                                 StoredTransactions(localStorage, id), TRUE)
  /\ isDataLoaded' = TRUE
  /\ isFirstMount' = TRUE
  /\ effects' = AllEffects
  /\ switched' = NoSwitch
  /\ UNCHANGED <<localStorage, frames>>

NextPortfolios ==
  \/ Render /\ UNCHANGED <<derivedVars, analyticsVars, goalVars, csvVars, growthVars, formVars>>
  \/ PersistPortfolios
     /\ UNCHANGED <<derivedVars, analyticsVars, goalVars, csvVars, growthVars, formVars>>
  \/ PersistActivePortfolioId
     /\ UNCHANGED <<derivedVars, analyticsVars, goalVars, csvVars, growthVars, formVars>>
  \/ SwitchPortfolio
     /\ UNCHANGED <<derivedVars, analyticsVars, goalVars, csvVars, growthVars, formVars>>
  \/ PersistTransactions
     /\ UNCHANGED <<derivedVars, analyticsVars, goalVars, csvVars, growthVars, formVars>>
  \/ LoadData /\ UNCHANGED <<derivedVars, analyticsVars, goalVars, csvVars, growthVars, formVars>>
  \/ SelectPortfolio
     /\ UNCHANGED <<derivedVars, analyticsVars, goalVars, csvVars, growthVars, formVars>>
  \/ CreatePortfolio
     /\ UNCHANGED <<derivedVars, analyticsVars, goalVars, csvVars, growthVars, formVars>>
  \/ RenamePortfolio
     /\ UNCHANGED <<derivedVars, analyticsVars, goalVars, csvVars, growthVars, formVars>>
  \/ DeletePortfolio
     /\ UNCHANGED <<derivedVars, analyticsVars, goalVars, csvVars, growthVars, formVars>>
  \/ SaveTransaction
     /\ UNCHANGED <<derivedVars, analyticsVars, goalVars, csvVars, growthVars, formVars>>
  \/ Relaunch /\ UNCHANGED <<derivedVars, analyticsVars, goalVars, csvVars, growthVars, formVars>>

SpecPortfolios == Init /\ [][NextPortfolios]_vars

\* C29 as claimed: in every state of the App the list of portfolios is not
\* empty and activePortfolioId is the id of one of them.
C29_ActiveIsListed ==
  /\ portfolios # << >>
  /\ activePortfolioId \in IdsOf(portfolios)

\* The switch effect and the frame it requested have run and the App has
\* rendered the loaded ledger.
Settled == Idle /\ frames = << >> /\ isDataLoaded

\* C26 as claimed, for the switches from a portfolio of the list: after the
\* switch, the ledger stored for every portfolio other than the one left is
\* what it was at the switch, and once the switch has settled the ledger in
\* memory and the ledger stored for the portfolio switched to are what was
\* stored for it at the switch (empty for a new portfolio).
C26_LedgersIsolated ==
  (switched # NoSwitch /\ switched.from # DefaultId) =>
    /\ \A id \in DOMAIN switched.transactions \ {switched.from} :
         StoredTransactions(localStorage, id) = switched.transactions[id]
    /\ Settled =>
         /\ transactions = StoredTransactions(switched, switched.to)
         /\ StoredTransactions(localStorage, switched.to)
              = StoredTransactions(switched, switched.to)


(***************************************************************************)
(* C25, C28  The ledger of the App                                         *)
(*                                                                         *)
(* The add-transaction form (AddTransactionForm) is opened for a new       *)
(* record or with a record of the ledger; what the user enters is          *)
(* submitted if validate() finds no error, and handleSaveTransaction       *)
(* stores it.  Records are deleted with handleDeleteTransaction and        *)
(* imported with handleImportTransactions.  generateId() returns an id     *)
(* that no record of the ledger has.                                       *)
(***************************************************************************)
NumTxIds == 3
MaxLedger == 3
MaxImport == 2

TxIds == 1..NumTxIds

\* No target allocations.
NoTargets == [s \in Symbols |-> Undef]

\* What the user enters in the form: a type, a date, and the parsed fields (a
\* symbol, shares and a price per share for a trade; an amount for a deposit
\* or withdrawal).
TradeForms ==
  [type : {BUY, SELL}, date : {1, 2}, symbol : {1}, shares : {Z(1)},
   price : {Z(1)}, fee : {Undef}, totalAmount : {Undef}]

FundingForms ==
  [type : {DEPOSIT, WITHDRAW}, date : {1}, symbol : {NoSymbol}, shares : {Undef},
   price : {Undef}, fee : {Undef}, totalAmount : {Z(2)}]

Forms == TradeForms \cup FundingForms

needsSymbol(type) == type \in {BUY, SELL, DIVIDEND, SPLIT}
needsShares(type) == type \in {BUY, SELL, SPLIT}

\* currentCashImpact of the form.
currentCashImpact(form) ==
  LET qty == OrZero(form.shares)
      unitPrice == OrZero(form.price)
      feeVal == OrZero(form.fee)
      amt == OrZero(form.totalAmount)
  IN  IF form.type = BUY THEN Neg(Add(Mul(qty, unitPrice), feeVal))
      ELSE IF form.type = SELL THEN Sub(Mul(qty, unitPrice), feeVal)
      ELSE IF form.type = DEPOSIT THEN amt
      ELSE IF form.type = WITHDRAW THEN Neg(amt)
      ELSE IF form.type = DIVIDEND THEN amt
      ELSE Zero

\* originalCashImpact of the record the form was opened with.
originalCashImpact(initialData) ==
  IF initialData = NoTransaction THEN Zero
  ELSE LET qty == OrZero(initialData.shares)
           unitPrice == OrZero(initialData.price)
           feeVal == OrZero(initialData.fee)
       IN  IF initialData.type = BUY THEN Neg(Add(Mul(qty, unitPrice), feeVal))
           ELSE IF initialData.type = SELL THEN Sub(Mul(qty, unitPrice), feeVal)
           ELSE IF initialData.type = DEPOSIT THEN unitPrice
           ELSE IF initialData.type = WITHDRAW THEN Neg(unitPrice)
           ELSE IF initialData.type = DIVIDEND THEN unitPrice
           ELSE Zero

\* validate() of the form opened with initialData, the App holding the ledger
\* txs: the error message, or "null".
validate(form, initialData, txs) ==
  LET held == calculateHoldings(txs, NoTargets)
      currentShares == IF form.symbol \in DOMAIN held THEN held[form.symbol].shares
                       ELSE Zero
      originalShares == IF /\ initialData # NoTransaction
                           /\ initialData.type = SELL
                           /\ initialData.symbol = form.symbol
                        THEN OrZero(initialData.shares) ELSE Zero
      available == Add(currentShares, originalShares)
      projectedCashBalance ==
        Add(Sub(cashBalance(txs, Len(txs)), originalCashImpact(initialData)),
            currentCashImpact(form))
  IN  IF needsSymbol(form.type) /\ form.symbol = NoSymbol
      THEN "Asset Symbol is required."
      ELSE IF ~needsSymbol(form.type) /\ ~Truthy(form.totalAmount)
      THEN "Amount is required."
      ELSE IF form.type = SELL /\ Gt(OrZero(form.shares), available)
      THEN "Insufficient shares."
      ELSE IF form.type \in {WITHDRAW, BUY} /\ Lt(projectedCashBalance, Zero)
      THEN "Insufficient funds."
      ELSE "null"

\* The Transaction handleFinalSubmit passes to onSave, with the id given.
SubmittedTx(form, id) ==
  [id |-> id, date |-> form.date, type |-> form.type,
   symbol |-> IF needsSymbol(form.type) THEN form.symbol ELSE NoSymbol,
   shares |-> IF needsShares(form.type) THEN form.shares ELSE Undef,
   price |-> IF form.type = SPLIT THEN Zero
             ELSE IF needsShares(form.type) THEN form.price ELSE form.totalAmount,
   fee |-> IF Truthy(form.fee) /\ form.type \in {BUY, SELL} THEN form.fee ELSE Undef]

\* setPrices of handleSaveTransaction: the price of a BUY or SELL becomes the
\* price of its symbol.
PricesAfterSave(tx) ==
  IF tx.type \in {BUY, SELL} /\ HasSymbol(tx) /\ Truthy(tx.price)
  THEN [prices EXCEPT ![tx.symbol] = tx.price] ELSE prices

\* Mutant of handleImportTransactions: the imported records are appended.
handleImportTransactions_Appends(prev, importedTxs) == prev \o importedTxs

RECURSIVE handleImportTransactions(_, _)
\* The ledger handleImportTransactions sets: a Map from id to record, filled
\* from prev and then from importedTxs, read back in insertion order.
handleImportTransactions(prev, importedTxs) ==
  IF importedTxs = << >> THEN prev
  ELSE LET t == Head(importedTxs)
           current == IF t.id \in IdsOf(prev)
                      THEN [i \in 1..Len(prev) |-> IF prev[i].id = t.id THEN t ELSE prev[i]]
                      ELSE Append(prev, t)
       IN  handleImportTransactions(current, Tail(importedTxs))

\* The ledger handleDeleteTransaction(id) sets.
handleDeleteTransaction(prev, id) == SelectSeq(prev, LAMBDA t : t.id # id)

\* The ledger handleSaveTransaction(tx) sets when a record with an id is being
\* edited, and when not.
handleSaveTransaction(prev, editing, tx) ==
  IF editing # NoTransaction
  THEN [i \in 1..Len(prev) |-> IF prev[i].id = tx.id THEN tx ELSE prev[i]]
  ELSE Append(prev, tx)

\* The form is opened for a new record (handleOpenAddModal).
OpenAdd ==
  /\ ~isAddModalOpen
  /\ editingTransaction' = NoTransaction
  /\ isAddModalOpen' = TRUE
  /\ UNCHANGED <<transactions, prices, ledgerOp>>

\* The form is opened with a record of the ledger (handleOpenEditModal).
OpenEdit ==
  /\ ~isAddModalOpen
  /\ \E i \in 1..Len(transactions) : editingTransaction' = transactions[i]
  /\ isAddModalOpen' = TRUE
  /\ UNCHANGED <<transactions, prices, ledgerOp>>

\* The form is closed without a submission (onClose).
CloseForm ==
  /\ isAddModalOpen
  /\ isAddModalOpen' = FALSE
  /\ UNCHANGED <<transactions, prices, editingTransaction, ledgerOp>>

\* A form that validate() accepts is submitted: handleFinalSubmit, then
\* handleSaveTransaction.
Submit(id) ==
  \E form \in Forms :
    /\ validate(form, editingTransaction, transactions) = "null"
    /\ LET tx == SubmittedTx(form, id)
       IN  /\ transactions' = handleSaveTransaction(transactions, editingTransaction, tx)
           /\ prices' = PricesAfterSave(tx)
           /\ ledgerOp' = [op |-> IF editingTransaction # NoTransaction THEN "edit"
                                  ELSE "add",
                           tx |-> tx, prev |-> transactions]
    /\ isAddModalOpen' = FALSE
    /\ editingTransaction' = NoTransaction

SubmitNewTransaction ==
  /\ isAddModalOpen
  /\ editingTransaction = NoTransaction
  /\ Len(transactions) < MaxLedger
  /\ \E id \in TxIds \ IdsOf(transactions) : Submit(id)

SubmitEditedTransaction ==
  /\ isAddModalOpen
  /\ editingTransaction # NoTransaction
  /\ Submit(editingTransaction.id)

\* handleDeleteTransaction(id), confirmed: of the record the form shows, or,
\* the form closed, of a record of the history.
DeleteTransaction ==
  \E i \in 1..Len(transactions) :
    /\ isAddModalOpen => editingTransaction # NoTransaction
                         /\ editingTransaction.id = transactions[i].id
    /\ transactions' = handleDeleteTransaction(transactions, transactions[i].id)
    /\ IF editingTransaction # NoTransaction
          /\ editingTransaction.id = transactions[i].id
       THEN /\ isAddModalOpen' = FALSE
            /\ editingTransaction' = NoTransaction
       ELSE UNCHANGED <<isAddModalOpen, editingTransaction>>
    /\ ledgerOp' = [op |-> "delete", id |-> transactions[i].id, prev |-> transactions]
    /\ UNCHANGED prices

\* The records a file may hold: a buy, with any id.
ImportTxs ==
  {SubmittedTx(form, id) :
     form \in {f \in Forms : f.date = 1 /\ f.type = BUY},
     id \in TxIds}

ImportLists == UNION {[1..n -> ImportTxs] : n \in 1..MaxImport}

\* handleImportTransactions(importedTxs), from the history, the form closed.
ImportTransactions ==
  \E importedTxs \in ImportLists :
    /\ ~isAddModalOpen
    /\ Len(handleImportTransactions(transactions, importedTxs)) <= MaxLedger
    /\ transactions' = handleImportTransactions(transactions, importedTxs)
    /\ ledgerOp' = [op |-> "import", importedTxs |-> importedTxs, prev |-> transactions]
    /\ UNCHANGED <<prices, editingTransaction, isAddModalOpen>>

\* What the operations on the ledger leave alone.
LedgerFrame ==
  UNCHANGED <<sortedTx, holdingsMap, invested, cash, holdings, points, pre, pc, returned,
              analyticsVars, goalVars, csvVars, growthVars, appVars>>

NextForm ==
  \/ OpenAdd /\ LedgerFrame
  \/ OpenEdit /\ LedgerFrame
  \/ CloseForm /\ LedgerFrame
  \/ SubmitNewTransaction /\ LedgerFrame
  \/ SubmitEditedTransaction /\ LedgerFrame

\* The ledger built from submissions only.
SpecForm == Init /\ [][NextForm]_vars

NextLedger ==
  \/ NextForm
  \/ DeleteTransaction /\ LedgerFrame
  \/ ImportTransactions /\ LedgerFrame

SpecLedger == Init /\ [][NextLedger]_vars

\* The shares of tx.symbol held when the i-th record of the sorted ledger is
\* replayed by calculateHoldings.
HeldBefore(sorted, i) ==
  LET hm == ReplayHoldings(sorted, i - 1, prices)
  IN  IF sorted[i].symbol \in DOMAIN hm THEN hm[sorted[i].symbol].shares ELSE Zero

\* The SELLs of the sorted ledger that sell more than is held at their point
\* of the replay.
Oversells(txs) ==
  LET sorted == SortByDate(txs)
  IN  {i \in 1..Len(sorted) :
         /\ sorted[i].type = SELL
         /\ HasSymbol(sorted[i])
         /\ Gt(OrZero(sorted[i].shares), HeldBefore(sorted, i))}

\* C25 as claimed: in a ledger built from submissions that passed validate(),
\* the replay of calculateHoldings processes no SELL of more shares than are
\* held for its symbol at that point.
C25_NoOversell == Oversells(transactions) = {}

\* No two records of a ledger share an id.
UniqueIds(txs) == \A i, j \in 1..Len(txs) : txs[i].id = txs[j].id => i = j

\* The last record of a list with the id given.
LastWithId(list, id) ==
  list[CHOOSE i \in 1..Len(list) :
         list[i].id = id /\ \A j \in (i + 1)..Len(list) : list[j].id # id]

\* C28: no two records of the ledger share an id; an edit has replaced the
\* record with the id edited and left the ledger otherwise as it was, a delete
\* has removed the record with the id and kept the others in order, and an
\* import has replaced in place the records whose id is imported, kept the
\* others, and added one record per imported id that was not there.
C28_UniqueIds ==
  /\ UniqueIds(transactions)
  /\ ledgerOp.op = "add" =>
       transactions = Append(ledgerOp.prev, ledgerOp.tx)
  /\ ledgerOp.op = "edit" =>
       /\ Len(transactions) = Len(ledgerOp.prev)
       /\ \A i \in 1..Len(transactions) :
            transactions[i] = IF ledgerOp.prev[i].id = ledgerOp.tx.id THEN ledgerOp.tx
                              ELSE ledgerOp.prev[i]
       /\ Cardinality({i \in 1..Len(transactions) :
                         ledgerOp.prev[i].id = ledgerOp.tx.id}) = 1
  /\ ledgerOp.op = "delete" =>
       /\ Len(transactions) = Len(ledgerOp.prev) - 1
       /\ ledgerOp.id \notin IdsOf(transactions)
       /\ \A i \in 1..Len(transactions) :
            transactions[i] = ledgerOp.prev[IF ledgerOp.prev[i].id = ledgerOp.id
                                               \/ \E j \in 1..i : ledgerOp.prev[j].id
                                                                    = ledgerOp.id
                                            THEN i + 1 ELSE i]
  /\ ledgerOp.op = "import" =>
       /\ IdsOf(transactions) = IdsOf(ledgerOp.prev) \cup IdsOf(ledgerOp.importedTxs)
       /\ Len(transactions) = Cardinality(IdsOf(transactions))
       /\ \A i \in 1..Len(ledgerOp.prev) :
            /\ transactions[i].id = ledgerOp.prev[i].id
            /\ ledgerOp.prev[i].id \notin IdsOf(ledgerOp.importedTxs)
                 => transactions[i] = ledgerOp.prev[i]
       /\ \A i \in 1..Len(transactions) :
            transactions[i].id \in IdsOf(ledgerOp.importedTxs)
              => transactions[i] = LastWithId(ledgerOp.importedTxs, transactions[i].id)

\* An import of two records, one with the id of a record of the ledger and
\* other contents, one with a new id: the first has replaced the record, the
\* second is added.
C28_Witness ==
  /\ ledgerOp.op = "import"
  /\ Len(ledgerOp.prev) = 2
  /\ Len(ledgerOp.importedTxs) = 2
  /\ ledgerOp.importedTxs[1].id = ledgerOp.prev[1].id
  /\ ledgerOp.importedTxs[1] # ledgerOp.prev[1]
  /\ ledgerOp.importedTxs[2].id \notin IdsOf(ledgerOp.prev)
  /\ transactions = <<ledgerOp.importedTxs[1], ledgerOp.prev[2], ledgerOp.importedTxs[2]>>


=============================================================================
